---- MODULE Spec2Model ----
(***************************************************************************)
(* Verification model of SwapLogAnalyzer                                   *)
(* (src/analyze_swap_log_verification.py): the ingestion pass              *)
(* (_analyze_file, _analyze_liquidity, _analyze_swap), the percentile      *)
(* computation (_calculate_percentiles) and report generation              *)
(* (generate_markdown_report).                                             *)
(*                                                                         *)
(* Python values read from a JSON document are modelled as tuples: <<>> is *)
(* None (JSON null) and <<x>> is the value x, so that dict.get defaults,   *)
(* null fields and absent fields stay three different things.  A swap is a *)
(* function whose DOMAIN is the set of keys present in the JSON object.    *)
(* difference_bps is a float in the source; it is modelled in fixed point  *)
(* at a resolution of 0.01 bps (see Bps).                                  *)
(***************************************************************************)
EXTENDS Integers, Sequences, FiniteSets, TLC

VARIABLES
    pool_stats,                \* self.pool_stats: pool key -> counters
    available_liquidity,       \* self.available_liquidity: kind -> count
    liquidity_files_processed, \* self.liquidity_files_processed
    error_types,               \* self.error_types: pool key -> category -> count
    error_examples,            \* self.error_examples: example key -> list
    difference_distributions,  \* self.difference_distributions: pool key -> list
    total_swaps,               \* self.total_swaps
    total_verified,            \* self.total_verified
    total_errors,              \* self.total_errors
    zero_amount_errors,        \* self.zero_amount_errors
    vm_errors,                 \* self.vm_errors
    other_errors,              \* self.other_errors
    v2_stats,                  \* self.v2_stats
    v3_stats,                  \* self.v3_stats
    files_done,                \* number of _analyze_file calls begun (names the file)
    pending,                   \* swaps of the current file not yet visited by the loop
    ingested,                  \* the (swap, filename) arguments of the _analyze_swap calls so far
    last_op,                   \* the operation performed by the last step
    last_swap,                 \* the argument of the last _analyze_swap call
    last_category,             \* error_category assigned by the last _analyze_swap call
    raised,                    \* exception that escaped the last call ("" when none)
    report,                    \* the report written by the last call (NoReport when it wrote none)
    reported,                  \* a report has been produced from this analyzer
    values,                    \* argument of _calculate_percentiles (pure-function check)
    percentiles,               \* its result
    input,                     \* arguments of the function applied by a pure-function check
    output                     \* its result

vars == << pool_stats, available_liquidity, liquidity_files_processed,
           error_types, error_examples, difference_distributions,
           total_swaps, total_verified, total_errors, zero_amount_errors,
           vm_errors, other_errors, v2_stats, v3_stats, files_done, pending,
           ingested, last_op, last_swap, last_category, raised, report,
           reported, values, percentiles, input, output >>

\* The analyzer object's own fields (everything ingestion can mutate).
aggregate == << pool_stats, available_liquidity, liquidity_files_processed,
                error_types, error_examples, difference_distributions,
                total_swaps, total_verified, total_errors, zero_amount_errors,
                vm_errors, other_errors, v2_stats, v3_stats >>

-----------------------------------------------------------------------------
(* Python values *)

None == << >>

Val(x) == << x >>

\* dict.get(key, default): the default is used only when the key is absent.
Get(d, key, default) == IF key \in DOMAIN d THEN d[key] ELSE default

\* Truth value of a bool or None as tested by `if verified:`.
IsTrue(v) == v # None /\ v[1]

\* Truth value of a str or None as tested by `if error`.
NonEmpty(v) == v # None /\ v[1] # ""

\* f"{v}" for a str or None.
Fmt(v) == IF v = None THEN "None" ELSE v[1]

\* n basis points in the fixed-point unit of the model (0.01 bps).
Bps(n) == n * 100

\* Variant: the signed value.
AbsSigned(x) == x

\* abs(x)
Abs(x) == IF x < 0 THEN -x ELSE x

Min(a, b) == IF a <= b THEN a ELSE b

\* `sub in s` for two str.
Contains(sub, s) ==
    \E i \in 1..(Len(s) - Len(sub) + 1) : SubSeq(s, i, i + Len(sub) - 1) = sub

\* s[:n]
Prefix(s, n) == SubSeq(s, 1, Min(n, Len(s)))

-----------------------------------------------------------------------------
(* SwapLogAnalyzer.__init__ *)

\* The default factory of self.pool_stats.
DefaultStats ==
    [ total |-> 0, verified |-> 0, perfect |-> 0, errors |-> 0,
      within_1bps |-> 0, within_10bps |-> 0, within_100bps |-> 0,
      over_100bps |-> 0, pool_type |-> "", version |-> "" ]

\* The initial value of self.v2_stats and of self.v3_stats.
DefaultVersionStats == [ total |-> 0, verified |-> 0, perfect |-> 0, errors |-> 0 ]

\* A dict with no keys.
EmptyDict == << >>

\* The value of `report` when the last call wrote no report.
NoReport == [ written |-> FALSE ]

\* d[key] of a defaultdict, without the insertion a read performs.
Lookup(d, key, default) == IF key \in DOMAIN d THEN d[key] ELSE default

\* d[key] = v
Store(d, key, v) == (key :> v) @@ d

-----------------------------------------------------------------------------
(* SwapLogAnalyzer._analyze_swap *)

\* pool_key = f"{pool_type} {pool_version}"
PoolKey(pool_type, pool_version) == Fmt(pool_type) \o " " \o Fmt(pool_version)

\* key = f"{pool_key}_{error_category}"
ExampleKey(pool_key, error_category) == pool_key \o "_" \o error_category

\* Variant: `<` in place of `<=` at the bucket edges.
BucketEdgesExclusive(abs_diff) ==
    IF abs_diff = 0 THEN "perfect"
    ELSE IF abs_diff < Bps(1) THEN "within_1bps"
    ELSE IF abs_diff < Bps(10) THEN "within_10bps"
    ELSE IF abs_diff < Bps(100) THEN "within_100bps"
    ELSE "over_100bps"

\* The counter of pool_stats[pool_key] that the if/elif chain on abs_diff increments.
Bucket(abs_diff) ==
    IF abs_diff = 0 THEN "perfect"
    ELSE IF abs_diff <= Bps(1) THEN "within_1bps"
    ELSE IF abs_diff <= Bps(10) THEN "within_10bps"
    ELSE IF abs_diff <= Bps(100) THEN "within_100bps"
    ELSE "over_100bps"

\* Variant: a verified swap is counted in total but not in verified.
UpdatedStatsVerifiedNotCounted(stats, pool_type, pool_version, verified, diff_bps) ==
    LET s1 == [stats EXCEPT !.total = @ + 1,
                            !.pool_type = Fmt(pool_type),
                            !.version = Fmt(pool_version)]
    IN  IF IsTrue(verified)
        THEN IF diff_bps # None
             THEN [s1 EXCEPT ![Bucket(Abs(diff_bps[1]))] = @ + 1]
             ELSE s1
        ELSE [s1 EXCEPT !.errors = @ + 1]

\* Variant: a failed swap is counted in total but not in errors.
UpdatedStatsErrorsNotCounted(stats, pool_type, pool_version, verified, diff_bps) ==
    LET s1 == [stats EXCEPT !.total = @ + 1,
                            !.pool_type = Fmt(pool_type),
                            !.version = Fmt(pool_version)]
    IN  IF IsTrue(verified)
        THEN LET s2 == [s1 EXCEPT !.verified = @ + 1]
             IN  IF diff_bps # None
                 THEN [s2 EXCEPT ![Bucket(Abs(diff_bps[1]))] = @ + 1]
                 ELSE s2
        ELSE s1

\* Variant: `if abs_diff <= 1` in place of `elif`, so that a perfect match is
\* counted in within_1bps as well.
UpdatedStatsPerfectTwice(stats, pool_type, pool_version, verified, diff_bps) ==
    LET s1 == [stats EXCEPT !.total = @ + 1,
                            !.pool_type = Fmt(pool_type),
                            !.version = Fmt(pool_version)]
    IN  IF IsTrue(verified)
        THEN LET s2 == [s1 EXCEPT !.verified = @ + 1]
             IN  IF diff_bps # None
                 THEN IF Abs(diff_bps[1]) = 0
                      THEN [s2 EXCEPT !.perfect = @ + 1, !.within_1bps = @ + 1]
                      ELSE [s2 EXCEPT ![Bucket(Abs(diff_bps[1]))] = @ + 1]
                 ELSE s2
        ELSE [s1 EXCEPT !.errors = @ + 1]

\* pool_stats[pool_key] after the call: total, pool_type and version, then
\* the verified branch (with its bucket) or the errors counter.
UpdatedStats(stats, pool_type, pool_version, verified, diff_bps) ==
    LET s1 == [stats EXCEPT !.total = @ + 1,
                            !.pool_type = Fmt(pool_type),
                            !.version = Fmt(pool_version)]
    IN  IF IsTrue(verified)
        THEN LET s2 == [s1 EXCEPT !.verified = @ + 1]
             IN  IF diff_bps # None
                 THEN [s2 EXCEPT ![Bucket(Abs(diff_bps[1]))] = @ + 1]
                 ELSE s2
        ELSE [s1 EXCEPT !.errors = @ + 1]

\* Variant: a rollup counts no perfect swaps.
UpdatedVersionStatsNoPerfect(vstats, label, pool_version, verified, diff_bps) ==
    IF pool_version # Val(label) THEN vstats
    ELSE LET s1 == [vstats EXCEPT !.total = @ + 1]
         IN  IF IsTrue(verified)
             THEN [s1 EXCEPT !.verified = @ + 1]
             ELSE [s1 EXCEPT !.errors = @ + 1]

\* Variant: both rollups are updated for a swap of either version.
UpdatedVersionStatsAnyLabel(vstats, label, pool_version, verified, diff_bps) ==
    IF pool_version \notin { Val("V2"), Val("V3") } THEN vstats
    ELSE LET s1 == [vstats EXCEPT !.total = @ + 1]
         IN  IF IsTrue(verified)
             THEN LET s2 == [s1 EXCEPT !.verified = @ + 1]
                  IN  IF diff_bps # None /\ Abs(diff_bps[1]) = 0
                      THEN [s2 EXCEPT !.perfect = @ + 1]
                      ELSE s2
             ELSE [s1 EXCEPT !.errors = @ + 1]

\* self.v2_stats (label "V2") or self.v3_stats (label "V3") after the call.
UpdatedVersionStats(vstats, label, pool_version, verified, diff_bps) ==
    IF pool_version # Val(label) THEN vstats
    ELSE LET s1 == [vstats EXCEPT !.total = @ + 1]
         IN  IF IsTrue(verified)
             THEN LET s2 == [s1 EXCEPT !.verified = @ + 1]
                  IN  IF diff_bps # None /\ Abs(diff_bps[1]) = 0
                      THEN [s2 EXCEPT !.perfect = @ + 1]
                      ELSE s2
             ELSE [s1 EXCEPT !.errors = @ + 1]

\* `'VM execution error' in error` raises TypeError when error is None; the
\* test is reached only when amount_in == '0' is false.
CategorizeRaises(error, amount_in) == amount_in # Val("0") /\ error = None

\* error_category of a failed swap (the if/elif chain on amount_in and error).
ErrorCategory(error, amount_in) ==
    IF amount_in = Val("0") THEN "Zero-amount swap"
    ELSE IF Contains("VM execution error", error[1]) THEN "VM execution error"
    ELSE IF Contains("negative output delta", error[1]) THEN "Negative output delta"
    ELSE IF Contains("Swap failed in solver", error[1]) THEN "Solver calculation failed"
    ELSE "Other error"

\* The global counter incremented together with each error category.
CategoryCounter(error_category) ==
    IF error_category = "Zero-amount swap" THEN "zero_amount_errors"
    ELSE IF error_category = "VM execution error" THEN "vm_errors"
    ELSE "other_errors"

\* The dict stored as an example of a failed swap.
Example(swap, filename, pool_version, amount_in, error) ==
    [ filename |-> filename,
      pool_address |-> Get(swap, "pool_address", Val("N/A")),
      pool_version |-> pool_version,
      token_in |-> Get(swap, "token_in", Val("N/A")),
      token_out |-> Get(swap, "token_out", Val("N/A")),
      amount_in |-> amount_in,
      expected_out |-> Get(swap, "expected_amount_out", Val("N/A")),
      quoted_out |-> Get(swap, "quoted_amount_out", Val("N/A")),
      error |-> IF NonEmpty(error) THEN Val(Prefix(error[1], 200)) ELSE Val("N/A") ]

\* The number of examples kept per example key.
ExampleLimit == 3

\* Variant: `<=` in place of `<` in the length test.
UpdatedExamplesOneMore(examples, key, example) ==
    IF Len(Lookup(examples, key, << >>)) <= ExampleLimit
    THEN Store(examples, key, Append(Lookup(examples, key, << >>), example))
    ELSE examples

\* self.error_examples after a failed swap of example key `key`.
UpdatedExamples(examples, key, example) ==
    IF Len(Lookup(examples, key, << >>)) < ExampleLimit
    THEN Store(examples, key, Append(Lookup(examples, key, << >>), example))
    ELSE examples

\* self.error_types after error_types[pool_key][error_category] += 1.
UpdatedErrorTypes(types, pool_key, error_category) ==
    LET row == Lookup(types, pool_key, EmptyDict)
    IN  Store(types, pool_key,
              Store(row, error_category, Lookup(row, error_category, 0) + 1))

\* One call _analyze_swap(swap, filename); `rest` is the number of swaps the
\* enclosing loop of _analyze_file still has to visit after this one.
_analyze_swap(swap, filename, rest) ==
    LET pool_type == Get(swap, "kind", Val("unknown"))
        pool_version == Get(swap, "pool_version", Val("Unknown"))
        verified == Get(swap, "verified", Val(FALSE))
        diff_bps == Get(swap, "difference_bps", None)
        error == Get(swap, "error", Val(""))
        amount_in == Get(swap, "amount_in", Val("0"))
        pool_key == PoolKey(pool_type, pool_version)
        stats == Lookup(pool_stats, pool_key, DefaultStats)
        fails == ~IsTrue(verified)
        raises == fails /\ CategorizeRaises(error, amount_in)
        categorized == fails /\ ~raises
        error_category == IF categorized THEN ErrorCategory(error, amount_in) ELSE ""
        counter == CategoryCounter(error_category)
    IN  /\ pool_stats' = Store(pool_stats, pool_key,
                 UpdatedStats(stats, pool_type, pool_version, verified, diff_bps))
        /\ v2_stats' = UpdatedVersionStats(v2_stats, "V2", pool_version, verified, diff_bps)
        /\ v3_stats' = UpdatedVersionStats(v3_stats, "V3", pool_version, verified, diff_bps)
        /\ total_verified' = IF fails THEN total_verified ELSE total_verified + 1
        /\ difference_distributions' =
               IF ~fails /\ diff_bps # None
               THEN Store(difference_distributions, pool_key,
                          Append(Lookup(difference_distributions, pool_key, << >>),
                                 Abs(diff_bps[1])))
               ELSE difference_distributions
        /\ total_errors' = IF fails THEN total_errors + 1 ELSE total_errors
        /\ zero_amount_errors' =
               IF categorized /\ counter = "zero_amount_errors"
               THEN zero_amount_errors + 1 ELSE zero_amount_errors
        /\ vm_errors' =
               IF categorized /\ counter = "vm_errors" THEN vm_errors + 1 ELSE vm_errors
        /\ other_errors' =
               IF categorized /\ counter = "other_errors"
               THEN other_errors + 1 ELSE other_errors
        /\ error_types' =
               IF categorized
               THEN UpdatedErrorTypes(error_types, pool_key, error_category)
               ELSE error_types
        /\ error_examples' =
               IF categorized
               THEN UpdatedExamples(error_examples,
                        ExampleKey(pool_key, error_category),
                        Example(swap, filename, pool_version, amount_in, error))
               ELSE error_examples
        /\ raised' = IF raises THEN "TypeError" ELSE ""
        /\ pending' = IF raises THEN 0 ELSE rest
        /\ ingested' = Append(ingested, [ swap |-> swap, filename |-> filename ])
        /\ last_op' = "_analyze_swap"
        /\ last_swap' = swap
        /\ last_category' = error_category
        /\ report' = NoReport
        /\ UNCHANGED << available_liquidity, liquidity_files_processed, total_swaps,
                        files_done, reported, values, percentiles,
                    input, output >>

-----------------------------------------------------------------------------
(* SwapLogAnalyzer._analyze_liquidity and _analyze_file *)

\* available_liquidity after counting the pools of one liquidity document.
RECURSIVE CountLiquidity(_, _)
CountLiquidity(available, liquidity) ==
    IF liquidity = << >> THEN available
    ELSE LET kind == Fmt(Get(Head(liquidity), "kind", Val("Unknown")))
         IN  CountLiquidity(Store(available, kind, Lookup(available, kind, 0) + 1),
                            Tail(liquidity))

\* The part of _analyze_file before its loop, for the next verification file.
\* has_liquidity: the liquidity file exists and is readable, `liquidity` being
\* its pool list; readable: the verification file loads, n being len(swaps).
\* An unreadable verification file returns before total_swaps is touched.
_analyze_file(has_liquidity, liquidity, readable, n) ==
    /\ available_liquidity' =
           IF has_liquidity THEN CountLiquidity(available_liquidity, liquidity)
           ELSE available_liquidity
    /\ liquidity_files_processed' =
           IF has_liquidity THEN liquidity_files_processed + 1
           ELSE liquidity_files_processed
    /\ total_swaps' = IF readable THEN total_swaps + n ELSE total_swaps
    /\ pending' = IF readable THEN n ELSE 0
    /\ files_done' = files_done + 1
    /\ last_op' = "_analyze_file"
    /\ raised' = ""
    /\ report' = NoReport
    /\ UNCHANGED << pool_stats, error_types, error_examples,
                    difference_distributions, total_verified, total_errors,
                    zero_amount_errors, vm_errors, other_errors, v2_stats,
                    v3_stats, ingested, last_swap, last_category,
                    reported, values, percentiles,
                    input, output >>

-----------------------------------------------------------------------------
(* SwapLogAnalyzer._calculate_percentiles *)

\* sorted(values): insertion of x into an ascending sequence, then the sort.
RECURSIVE Insert(_, _)
Insert(x, sorted) ==
    IF sorted = << >> THEN << x >>
    ELSE IF x <= Head(sorted) THEN << x >> \o sorted
    ELSE << Head(sorted) >> \o Insert(x, Tail(sorted))

RECURSIVE Sorted(_)
Sorted(seq) == IF seq = << >> THEN << >> ELSE Insert(Head(seq), Sorted(Tail(seq)))

\* Variant: the nearest-rank index ceil(n * q) - 1.
PercentileIndexNearestRank(n, pct) == ((n * pct + 99) \div 100) - 1

\* Variant: the index rounded to the nearest integer.
PercentileIndexRounded(n, pct) == (n * pct + 50) \div 100

\* int(n * q) for q = pct / 100 (0.50, 0.95, 0.99): the 0-based index.  The
\* float product truncates to floor(n * pct / 100) for every n up to 2 * 10^6.
PercentileIndex(n, pct) == (n * pct) \div 100

_calculate_percentiles(vals) ==
    IF vals = << >> THEN [ p50 |-> 0, p95 |-> 0, p99 |-> 0, max |-> 0 ]
    ELSE LET sorted_values == Sorted(vals)
             n == Len(sorted_values)
         IN  [ p50 |-> sorted_values[PercentileIndex(n, 50) + 1],
               p95 |-> sorted_values[PercentileIndex(n, 95) + 1],
               p99 |-> sorted_values[PercentileIndex(n, 99) + 1],
               max |-> sorted_values[n] ]

-----------------------------------------------------------------------------
(* SwapLogAnalyzer.generate_markdown_report *)

\* A quotient the report formats, kept exact as << numerator, denominator >>.
Frac(num, den) == << num, den >>

\* `(a / b * 100) if b > 0 else 0`
GuardedRate(a, b) == IF b > 0 THEN Frac(a * 100, b) ELSE Frac(0, 1)

\* x - y of two quotients.
FracSub(x, y) == Frac(x[1] * y[2] - y[1] * x[2], x[2] * y[2])

\* The pool keys whose stored pool_type is t.
KeysOfType(t) == { k \in DOMAIN pool_stats : pool_stats[k].pool_type = t }

\* Variant: the total of one entry of the pool type, the other versions ignored.
SumTotalsOneVersion(keys) ==
    IF keys = {} THEN 0
    ELSE pool_stats[CHOOSE x \in keys : TRUE].total

\* used_by_type[t]: the totals of the entries of pool type t, summed.
RECURSIVE SumTotals(_)
SumTotals(keys) ==
    IF keys = {} THEN 0
    ELSE LET k == CHOOSE x \in keys : TRUE
         IN  pool_stats[k].total + SumTotals(keys \ { k })

\* all_types: the keys of available_liquidity and of used_by_type.
AllTypes == DOMAIN available_liquidity \cup { pool_stats[k].pool_type : k \in DOMAIN pool_stats }

\* The rows of the "Liquidity Availability vs Usage" table.
UtilizationTable ==
    [ t \in AllTypes |->
        LET available == Lookup(available_liquidity, t, 0)
            used == SumTotals(KeysOfType(t))
        IN  [ available |-> available, used |-> used,
              ratio |-> IF available > 0 THEN Frac(used, available) ELSE Frac(0, 1) ] ]

\* median, p99 and max of a "Pool Type Summary" row.
SummaryPercentiles(pool_key) ==
    IF pool_key \in DOMAIN difference_distributions
       /\ difference_distributions[pool_key] # << >>
    THEN _calculate_percentiles(difference_distributions[pool_key])
    ELSE [ p50 |-> 0, p95 |-> 0, p99 |-> 0, max |-> 0 ]

\* The rows of the "Pool Type Summary" table.
SummaryTable ==
    [ k \in DOMAIN pool_stats |->
        [ pool_type |-> pool_stats[k].pool_type,
          version |-> pool_stats[k].version,
          total |-> pool_stats[k].total,
          success_rate |-> GuardedRate(pool_stats[k].verified, pool_stats[k].total),
          perfect_rate |-> GuardedRate(pool_stats[k].perfect, pool_stats[k].total),
          median |-> SummaryPercentiles(k).p50,
          p99 |-> SummaryPercentiles(k).p99,
          max_diff |-> SummaryPercentiles(k).max ] ]

\* pools_by_type[t][version]: the entry whose stored fields are (t, version).
PoolsByType(t, version) ==
    pool_stats[CHOOSE k \in KeysOfType(t) : pool_stats[k].version = version]

\* The versions under which pool type t has an entry.
VersionsOfType(t) == { pool_stats[k].version : k \in KeysOfType(t) }

\* Variant: a pool type is compared only when both versions have samples.
ComparisonTypesWithSamples ==
    { t \in { pool_stats[k].pool_type : k \in DOMAIN pool_stats } :
        /\ "V2" \in VersionsOfType(t) /\ "V3" \in VersionsOfType(t)
        /\ (t \o " V2") \in DOMAIN difference_distributions
        /\ (t \o " V3") \in DOMAIN difference_distributions }

\* comparison_types: the pool types with an entry under V2 and one under V3.
ComparisonTypes ==
    { t \in { pool_stats[k].pool_type : k \in DOMAIN pool_stats } :
        "V2" \in VersionsOfType(t) /\ "V3" \in VersionsOfType(t) }

\* Variant: every difference taken as the V3 value minus the V2 value.
ComparisonTableV3MinusV2 ==
    [ t \in ComparisonTypes |->
        LET v2 == PoolsByType(t, "V2")
            v3 == PoolsByType(t, "V3")
            v2_key == t \o " V2"
            v3_key == t \o " V3"
            has_p99 == v2_key \in DOMAIN difference_distributions
                       /\ v3_key \in DOMAIN difference_distributions
            v2_p99 == _calculate_percentiles(Lookup(difference_distributions, v2_key, << >>)).p99
            v3_p99 == _calculate_percentiles(Lookup(difference_distributions, v3_key, << >>)).p99
        IN  [ v2_total |-> v2.total, v3_total |-> v3.total,
              success_rate_diff |-> FracSub(GuardedRate(v3.verified, v3.total),
                                            GuardedRate(v2.verified, v2.total)),
              perfect_rate_diff |-> FracSub(GuardedRate(v3.perfect, v3.total),
                                            GuardedRate(v2.perfect, v2.total)),
              has_p99 |-> has_p99,
              p99_diff |-> IF has_p99 THEN v3_p99 - v2_p99 ELSE 0 ] ]

\* The rows of the "Balancer V2 vs V3 Comparison" table.
ComparisonTable ==
    [ t \in ComparisonTypes |->
        LET v2 == PoolsByType(t, "V2")
            v3 == PoolsByType(t, "V3")
            v2_key == t \o " V2"
            v3_key == t \o " V3"
            has_p99 == v2_key \in DOMAIN difference_distributions
                       /\ v3_key \in DOMAIN difference_distributions
            v2_p99 == _calculate_percentiles(Lookup(difference_distributions, v2_key, << >>)).p99
            v3_p99 == _calculate_percentiles(Lookup(difference_distributions, v3_key, << >>)).p99
        IN  [ v2_total |-> v2.total, v3_total |-> v3.total,
              success_rate_diff |-> FracSub(GuardedRate(v2.verified, v2.total),
                                            GuardedRate(v3.verified, v3.total)),
              perfect_rate_diff |-> FracSub(GuardedRate(v2.perfect, v2.total),
                                            GuardedRate(v3.perfect, v3.total)),
              has_p99 |-> has_p99,
              p99_diff |-> IF has_p99 THEN v2_p99 - v3_p99 ELSE 0 ] ]

\* The first division of the report whose divisor is zero, "" when there is
\* none: the executive summary divides by total_swaps and the error
\* categories table divides by total_errors, both unguarded.
ReportDivisionByZero ==
    IF total_swaps = 0 THEN "total_swaps"
    ELSE IF total_errors = 0 THEN "total_errors"
    ELSE ""

\* self.error_types after the report sections have read
\* self.error_types[pool_key] (a defaultdict read inserts a missing key) for
\* every entry with errors > 0.
ErrorTypesAfterReport ==
    [ k \in DOMAIN error_types \cup { j \in DOMAIN pool_stats : pool_stats[j].errors > 0 } |->
        Lookup(error_types, k, EmptyDict) ]

generate_markdown_report ==
    /\ last_op' = "generate_markdown_report"
    /\ IF ReportDivisionByZero # ""
       THEN /\ raised' = "ZeroDivisionError"
            /\ report' = NoReport
            /\ UNCHANGED << error_types, reported >>
       ELSE /\ raised' = ""
            /\ error_types' = ErrorTypesAfterReport
            /\ report' = [ written |-> TRUE,
                           utilization |-> UtilizationTable,
                           summary |-> SummaryTable,
                           comparison |-> ComparisonTable ]
            /\ reported' = TRUE
    /\ UNCHANGED << pool_stats, available_liquidity, liquidity_files_processed,
                    error_examples, difference_distributions, total_swaps,
                    total_verified, total_errors, zero_amount_errors, vm_errors,
                    other_errors, v2_stats, v3_stats, files_done, pending,
                    ingested, last_swap, last_category, values, percentiles,
                    input, output >>

-----------------------------------------------------------------------------
(* Bounds and inputs *)

\* Swaps announced in total (total_swaps) in the general specification.
MaxSwaps == 3

\* Verification files analysed by one analyzer.
MaxFiles == 2

\* A swap object with the three keys every input below carries.
Swap(kind, pool_version, verified) ==
    [ kind |-> Val(kind), pool_version |-> Val(pool_version), verified |-> Val(verified) ]

\* d without the keys in `keys` (a JSON object that omits them).
Without(d, keys) == [ k \in DOMAIN d \ keys |-> d[k] ]

\* d with key set to value v.
With(d, key, v) == (key :> v) @@ d

\* The swaps of the general specification.  Under V2: two verified swaps
\* (difference_bps null and 0) and two failed ones (a null error text with a
\* non-zero amount, and a swap with neither error nor amount_in).  Under V3: a
\* verified swap of -0.5 bps and a failed one with a VM error.  With no
\* pool_version key at all: a verified swap without difference_bps and a
\* failed one with neither error nor amount_in.
UnversionedSwaps ==
    { Without(Swap("stable", "", v), { "pool_version" }) : v \in BOOLEAN }

Swaps ==
    { With(Swap("stable", "V2", TRUE), "difference_bps", d) : d \in { None, Val(0) } }
    \cup
    { With(With(Swap("stable", "V2", FALSE), "amount_in", Val("5")), "error", None),
      Swap("stable", "V2", FALSE),
      With(Swap("stable", "V3", TRUE), "difference_bps", Val(-50)),
      With(With(Swap("stable", "V3", FALSE), "amount_in", Val("5")), "error",
           Val("VM execution error: revert")) }
    \cup UnversionedSwaps

\* The pool lists of the liquidity files: a stable pool and a pool without kind.
LiquidityFiles == { << [ kind |-> Val("stable") ], [ id |-> Val("p") ] >> }

-----------------------------------------------------------------------------
(* The analyzer as a state machine *)

\* The result variable of _calculate_percentiles before any call.
NoPercentiles == [ called |-> FALSE ]

\* The argument and result variables of the other pure-function checks
\* before any call.
NoInput == << >>

NoOutput == [ called |-> FALSE ]

\* The analyzer after __init__.
InitAnalyzer ==
    /\ pool_stats = EmptyDict
    /\ available_liquidity = EmptyDict
    /\ liquidity_files_processed = 0
    /\ error_types = EmptyDict
    /\ error_examples = EmptyDict
    /\ difference_distributions = EmptyDict
    /\ total_swaps = 0
    /\ total_verified = 0
    /\ total_errors = 0
    /\ zero_amount_errors = 0
    /\ vm_errors = 0
    /\ other_errors = 0
    /\ v2_stats = DefaultVersionStats
    /\ v3_stats = DefaultVersionStats
    /\ files_done = 0
    /\ pending = 0
    /\ ingested = << >>
    /\ last_op = ""
    /\ last_swap = EmptyDict
    /\ last_category = ""
    /\ raised = ""
    /\ report = NoReport
    /\ reported = FALSE

Init ==
    /\ InitAnalyzer
    /\ values = << >>
    /\ percentiles = NoPercentiles
    /\ input = NoInput
    /\ output = NoOutput

\* analyze() reaching the next verification file: _analyze_file up to its loop.
AnalyzeFileStep(liquidity_present, liquidity_files, max_swaps, max_files) ==
    /\ pending = 0
    /\ files_done < max_files
    /\ \E has_liquidity \in liquidity_present, liquidity \in liquidity_files,
          readable \in BOOLEAN, n \in 0..(max_swaps - total_swaps) :
            _analyze_file(has_liquidity, liquidity, readable, n)

\* One iteration of the loop of _analyze_file; the file's name is its index.
\* A TypeError raised by _analyze_swap leaves the loop (pending becomes 0) and
\* propagates through analyze(); the analyzer object stays usable by a caller
\* that catches it, so later steps remain enabled.
AnalyzeSwapStep(swaps) ==
    /\ pending > 0
    /\ \E swap \in swaps : _analyze_swap(swap, files_done, pending - 1)

\* generate_markdown_report called between files (never inside the loop).
GenerateReport ==
    /\ pending = 0
    /\ generate_markdown_report

AnalyzeFile == AnalyzeFileStep(BOOLEAN, LiquidityFiles, MaxSwaps, MaxFiles)

AnalyzeSwap == AnalyzeSwapStep(Swaps)

Next == AnalyzeFile \/ AnalyzeSwap \/ GenerateReport

Spec == Init /\ [][Next]_vars

-----------------------------------------------------------------------------
(* Specification of the utilization table: two pool types in the swaps, one  *)
(* of them absent from the liquidity files, and a third pool type that only   *)
(* the liquidity files know.                                                  *)

MaxUtilizationSwaps == 5

\* Weighted swaps under V2 (failed) and V3 (verified), a failed stable swap.
UtilizationSwaps ==
    { Swap("weighted", "V2", FALSE),
      With(Swap("weighted", "V3", TRUE), "difference_bps", Val(0)),
      Swap("stable", "V2", FALSE) }

\* The pool list of the liquidity files: two stable pools and a gyro pool.
UtilizationLiquidity ==
    { << [ kind |-> Val("stable") ], [ kind |-> Val("gyro") ], [ kind |-> Val("stable") ] >> }

UtilizationAnalyzeFile ==
    AnalyzeFileStep(BOOLEAN, UtilizationLiquidity, MaxUtilizationSwaps, MaxFiles)

UtilizationAnalyzeSwap == AnalyzeSwapStep(UtilizationSwaps)

UtilizationNext == UtilizationAnalyzeFile \/ UtilizationAnalyzeSwap \/ GenerateReport

SpecUtilization == Init /\ [][UtilizationNext]_vars

-----------------------------------------------------------------------------
(* Specification of the V2-vs-V3 comparison: pool types under both versions, *)
(* under one of them, and under another version; versions with and without   *)
(* deviation samples.                                                         *)

MaxComparisonSwaps == 4

\* Stable swaps: verified under V2 with 3 bps and with no difference_bps,
\* under V3 verified with -7 bps and failed.  Weighted swaps: verified
\* under V2 with 0 bps, failed under V1, and under V3 failed with a null
\* error text and a non-zero amount.
ComparisonSwaps ==
    { With(Swap("stable", "V2", TRUE), "difference_bps", Val(Bps(3))),
      Swap("stable", "V2", TRUE),
      With(Swap("stable", "V3", TRUE), "difference_bps", Val(-Bps(7))),
      Swap("stable", "V3", FALSE),
      With(Swap("weighted", "V2", TRUE), "difference_bps", Val(0)),
      Swap("weighted", "V1", FALSE),
      With(With(Swap("weighted", "V3", FALSE), "amount_in", Val("5")), "error", None) }

ComparisonAnalyzeFile == AnalyzeFileStep({ FALSE }, { << >> }, MaxComparisonSwaps, MaxFiles)

ComparisonAnalyzeSwap == AnalyzeSwapStep(ComparisonSwaps)

ComparisonNext == ComparisonAnalyzeFile \/ ComparisonAnalyzeSwap \/ GenerateReport

SpecComparison == Init /\ [][ComparisonNext]_vars

-----------------------------------------------------------------------------
(* Specification of the sample lists: verified swaps with and without a      *)
(* difference_bps, failed swaps that carry one.                               *)

MaxSampleSwaps == 3

\* Stable V2 swaps: verified with no difference_bps, with 0, 0.5 and -3 bps;
\* failed with 7 bps; failed with 7 bps, a null error text and a non-zero
\* amount.  A verified weighted V3 swap with -10.01 bps.
SampleSwaps ==
    { With(Swap("stable", "V2", TRUE), "difference_bps", d) :
        d \in { None, Val(0), Val(50), Val(-Bps(3)) } }
    \cup
    { With(Swap("stable", "V2", FALSE), "difference_bps", Val(Bps(7))),
      With(With(With(Swap("stable", "V2", FALSE), "difference_bps", Val(Bps(7))),
                "amount_in", Val("5")), "error", None),
      With(Swap("weighted", "V3", TRUE), "difference_bps", Val(-1001)) }

SampleAnalyzeFile == AnalyzeFileStep({ FALSE }, { << >> }, MaxSampleSwaps, MaxFiles)

SampleAnalyzeSwap == AnalyzeSwapStep(SampleSwaps)

SampleNext == SampleAnalyzeFile \/ SampleAnalyzeSwap

SpecSamples == Init /\ [][SampleNext]_vars

-----------------------------------------------------------------------------
(* Specification of the magnitude buckets: verified swaps on both sides of   *)
(* every bucket edge, with both signs.                                        *)

MaxBucketSwaps == 2

\* difference_bps values: null, 0, and 0.5, 1, 1.01, 10, 10.01, 100, 100.01
\* bps with either sign.
BucketDifferences ==
    { None } \cup { Val(d) : d \in { 0, 50, 100, 101, 1000, 1001, 10000, 10001 } }
    \cup { Val(-d) : d \in { 50, 100, 101, 1000, 1001, 10000, 10001 } }

BucketSwaps ==
    { With(s, "difference_bps", d) :
        s \in { Swap("stable", "V2", TRUE), Swap("weighted", "V1", TRUE) },
        d \in BucketDifferences }

BucketAnalyzeFile == AnalyzeFileStep({ FALSE }, { << >> }, MaxBucketSwaps, MaxFiles)

BucketAnalyzeSwap == AnalyzeSwapStep(BucketSwaps)

BucketNext == BucketAnalyzeFile \/ BucketAnalyzeSwap \/ GenerateReport

SpecBuckets == Init /\ [][BucketNext]_vars

-----------------------------------------------------------------------------
(* Specification of the error categories: failed swaps over the error texts  *)
(* and amounts that separate the branches of the categorisation.              *)

MaxErrorSwaps == 2

\* error: null, empty, one marker, two markers in either order, no marker.
ErrorTexts ==
    { None, Val(""),
      Val("VM execution error: revert"),
      Val("pool: negative output delta"),
      Val("Swap failed in solver"),
      Val("negative output delta after VM execution error"),
      Val("Swap failed in solver: negative output delta"),
      Val("timeout") }

\* amount_in: "0", another amount, null.
ErrorAmounts == { Val("0"), Val("5"), None }

ErrorSwaps ==
    { With(With(Swap("stable", "V3", FALSE), "amount_in", a), "error", e) :
        a \in ErrorAmounts, e \in ErrorTexts }
    \cup { With(Swap("stable", "V3", FALSE), "error", e) : e \in ErrorTexts }
    \cup { With(Swap("stable", "V3", FALSE), "amount_in", a) : a \in ErrorAmounts }
    \cup { EmptyDict, Swap("stable", "V3", TRUE) }

ErrorAnalyzeFile == AnalyzeFileStep({ FALSE }, { << >> }, MaxErrorSwaps, MaxFiles)

ErrorAnalyzeSwap == AnalyzeSwapStep(ErrorSwaps)

ErrorNext == ErrorAnalyzeFile \/ ErrorAnalyzeSwap \/ GenerateReport

SpecErrors == Init /\ [][ErrorNext]_vars

-----------------------------------------------------------------------------
(* Specification of the retained examples: enough failed swaps of one        *)
(* (pool key, category) pair to pass the limit, told apart by pool_address.   *)

MaxExampleSwaps == 5

ExampleSwaps ==
    { With(With(Swap("stable", "V2", FALSE), "amount_in", Val("0")), "pool_address", a) :
        a \in { Val("0xa"), Val("0xb") } }
    \cup
    { With(With(Swap("stable", "V2", FALSE), "amount_in", Val("5")), "error",
           Val("VM execution error: revert")),
      With(Swap("stable", "V2", TRUE), "difference_bps", Val(0)) }

ExampleAnalyzeFile == AnalyzeFileStep({ FALSE }, { << >> }, MaxExampleSwaps, MaxFiles)

ExampleAnalyzeSwap == AnalyzeSwapStep(ExampleSwaps)

ExampleNext == ExampleAnalyzeFile \/ ExampleAnalyzeSwap \/ GenerateReport

SpecExamples == Init /\ [][ExampleNext]_vars

-----------------------------------------------------------------------------
(* Specification of _calculate_percentiles as a pure function.               *)

MaxSamples == 3

SampleValues == { -3, 0, 2, 7 }

\* All sequences over S of length at most n.
RECURSIVE SeqsUpTo(_, _)
SeqsUpTo(S, n) ==
    IF n = 0 THEN { << >> }
    ELSE LET shorter == SeqsUpTo(S, n - 1)
         IN  shorter \cup { Append(q, x) : q \in shorter, x \in S }

OneToTen == << 1, 2, 3, 4, 5, 6, 7, 8, 9, 10 >>

\* The argument lists: every short list, [5], and 1..10 in three orders.
SampleLists ==
    SeqsUpTo(SampleValues, MaxSamples)
    \cup { << 5 >>, OneToTen,
           << 10, 9, 8, 7, 6, 5, 4, 3, 2, 1 >>,
           << 6, 1, 10, 3, 8, 5, 2, 9, 4, 7 >> }

PercentileInit ==
    /\ InitAnalyzer
    /\ values \in SampleLists
    /\ percentiles = NoPercentiles
    /\ input = NoInput
    /\ output = NoOutput

CalculatePercentiles ==
    /\ ~percentiles.called
    /\ percentiles' = [ called |-> TRUE, result |-> _calculate_percentiles(values) ]
    /\ last_op' = "_calculate_percentiles"
    /\ UNCHANGED << pool_stats, available_liquidity, liquidity_files_processed,
                    error_types, error_examples, difference_distributions,
                    total_swaps, total_verified, total_errors, zero_amount_errors,
                    vm_errors, other_errors, v2_stats, v3_stats, files_done,
                    pending, ingested, last_swap, last_category, raised, report,
                    reported, values, input, output >>

PercentileNext == CalculatePercentiles

SpecPercentiles == PercentileInit /\ [][PercentileNext]_vars

-----------------------------------------------------------------------------
(* Specification of shard ingestion: the swaps of one file analysed by one    *)
(* analyzer, the two parts of a split of them by two analyzers, and the same  *)
(* swaps with two neighbours exchanged by another analyzer.                   *)

MaxBatch == 3

\* pool_stats and difference_distributions of an analyzer after __init__.
FreshAnalyzer ==
    [ pool_stats |-> EmptyDict, difference_distributions |-> EmptyDict, raised |-> "" ]

\* The two maps of analyzer a after _analyze_swap(swap), and the exception
\* the call raised.
AfterSwap(a, swap) ==
    LET pool_type == Get(swap, "kind", Val("unknown"))
        pool_version == Get(swap, "pool_version", Val("Unknown"))
        verified == Get(swap, "verified", Val(FALSE))
        diff_bps == Get(swap, "difference_bps", None)
        error == Get(swap, "error", Val(""))
        amount_in == Get(swap, "amount_in", Val("0"))
        pool_key == PoolKey(pool_type, pool_version)
        stats == Lookup(a.pool_stats, pool_key, DefaultStats)
    IN  [ pool_stats |->
              Store(a.pool_stats, pool_key,
                    UpdatedStats(stats, pool_type, pool_version, verified, diff_bps)),
          difference_distributions |->
              IF IsTrue(verified) /\ diff_bps # None
              THEN Store(a.difference_distributions, pool_key,
                         Append(Lookup(a.difference_distributions, pool_key, << >>),
                                Abs(diff_bps[1])))
              ELSE a.difference_distributions,
          raised |->
              IF ~IsTrue(verified) /\ CategorizeRaises(error, amount_in)
              THEN "TypeError" ELSE "" ]

\* The loop of _analyze_file over the swaps of a file: the exception of a
\* call leaves the loop, the swaps after it are not analysed.
RECURSIVE AfterSwaps(_, _)
AfterSwaps(a, swaps) ==
    IF swaps = << >> THEN a
    ELSE LET b == AfterSwap(a, Head(swaps))
         IN  IF b.raised # "" THEN b ELSE AfterSwaps(b, Tail(swaps))

\* Stable swaps under V2: verified with 3 bps, with 0 bps and with -7 bps,
\* failed with a null error text and a non-zero amount; a failed stable
\* swap under V3.
ShardSwaps ==
    { With(Swap("stable", "V2", TRUE), "difference_bps", Val(d)) :
        d \in { Bps(3), 0, -Bps(7) } }
    \cup
    { With(With(Swap("stable", "V2", FALSE), "amount_in", Val("5")), "error", None),
      Swap("stable", "V3", FALSE) }

\* swaps with the elements at positions j and j + 1 exchanged (j = 0: none).
Exchanged(swaps, j) ==
    [ i \in 1..Len(swaps) |->
        IF j > 0 /\ i = j THEN swaps[j + 1]
        ELSE IF j > 0 /\ i = j + 1 THEN swaps[j]
        ELSE swaps[i] ]

\* A batch, the position of its split and the position of the exchange.
ShardInputs ==
    { [ batch |-> b, split |-> i, exchange |-> j ] :
        b \in SeqsUpTo(ShardSwaps, MaxBatch), i \in 0..MaxBatch, j \in 0..(MaxBatch - 1) }

ShardInit ==
    /\ InitAnalyzer
    /\ values = << >>
    /\ percentiles = NoPercentiles
    /\ input \in { x \in ShardInputs :
                     x.split <= Len(x.batch) /\ x.exchange < Len(x.batch) }
    /\ output = NoOutput

\* The batch through one analyzer, its two parts through two analyzers, and
\* the reordered batch through a fourth.
IngestShards ==
    /\ ~output.called
    /\ output' =
           [ called |-> TRUE,
             whole |-> AfterSwaps(FreshAnalyzer, input.batch),
             first |-> AfterSwaps(FreshAnalyzer, SubSeq(input.batch, 1, input.split)),
             second |-> AfterSwaps(FreshAnalyzer,
                                   SubSeq(input.batch, input.split + 1, Len(input.batch))),
             reordered |-> AfterSwaps(FreshAnalyzer,
                                      Exchanged(input.batch, input.exchange)) ]
    /\ last_op' = "_analyze_file"
    /\ UNCHANGED << pool_stats, available_liquidity, liquidity_files_processed,
                    error_types, error_examples, difference_distributions,
                    total_swaps, total_verified, total_errors, zero_amount_errors,
                    vm_errors, other_errors, v2_stats, v3_stats, files_done,
                    pending, ingested, last_swap, last_category, raised, report,
                    reported, values, percentiles, input >>

ShardNext == IngestShards

SpecShards == ShardInit /\ [][ShardNext]_vars

-----------------------------------------------------------------------------
(* Ranked lists: the counting maps of analyze_order_volume and                *)
(* check_verifications and the sorted(...) calls that print them.             *)

MaxStream == 4

\* The lengths of the two top lists.
TopPairs == 30

TopFillablePairs == 20

\* counts[key] += 1 on a defaultdict(int): a dict keeps its keys in the
\* order of their first insertion, modelled as a sequence of items.
CountInto(counts, key) ==
    IF \E i \in 1..Len(counts) : counts[i].key = key
    THEN [ i \in 1..Len(counts) |->
             IF counts[i].key = key
             THEN [ key |-> key, count |-> counts[i].count + 1 ]
             ELSE counts[i] ]
    ELSE Append(counts, [ key |-> key, count |-> 1 ])

\* The counting map after the keys of a stream, in the order of the stream.
RECURSIVE Tally(_)
Tally(stream) ==
    IF stream = << >> THEN << >>
    ELSE CountInto(Tally(SubSeq(stream, 1, Len(stream) - 1)), stream[Len(stream)])

\* list.sort on << sort key, item >> pairs: ascending by sort key, pairs of
\* equal sort keys left in their order (the sort is stable).
RECURSIVE StableInsert(_, _)
StableInsert(x, sorted) ==
    IF sorted = << >> THEN << x >>
    ELSE IF Head(sorted)[1] <= x[1]
         THEN << Head(sorted) >> \o StableInsert(x, Tail(sorted))
         ELSE << x >> \o sorted

RECURSIVE StableSort(_)
StableSort(pairs) ==
    IF pairs = << >> THEN << >>
    ELSE StableInsert(pairs[Len(pairs)], StableSort(SubSeq(pairs, 1, Len(pairs) - 1)))

\* A sequence in reverse.
Reverse(q) == [ i \in 1..Len(q) |-> q[Len(q) + 1 - i] ]

\* The items of a sequence of << sort key, item >> pairs.
Items(pairs) == [ i \in 1..Len(pairs) |-> pairs[i][2] ]

\* sorted(counts.items(), key=lambda x: -x[1])
SortedByNegatedCount(counts) ==
    Items(StableSort([ i \in 1..Len(counts) |-> << -counts[i].count, counts[i] >> ]))

\* Variant: reverse=True as a reversal of the ascending sort.
SortedByCountAscendingThenReversed(counts) ==
    Items(Reverse(StableSort([ i \in 1..Len(counts) |-> << counts[i].count, counts[i] >> ])))

\* sorted(counts.items(), key=lambda x: x[1], reverse=True): the list is
\* reversed, sorted ascending and reversed again, which keeps items of equal
\* count in their order.
SortedByCountReverse(counts) ==
    Items(Reverse(StableSort(
        Reverse([ i \in 1..Len(counts) |-> << counts[i].count, counts[i] >> ]))))

\* The keys "k1" .. "kn" in this order.
KeysTo(n) == [ i \in 1..n |-> "k" \o ToString(i) ]

\* The streams of keys: every short stream over three keys, and three
\* streams with more distinct keys than the top lists are long.
Streams ==
    SeqsUpTo({ "WETH->USDC", "DAI->WETH", "USDC->DAI" }, MaxStream)
    \cup { KeysTo(31) \o << "k31", "k5", "k30" >>,
           KeysTo(21) \o << "k21", "k20" >>,
           Reverse(KeysTo(31)) \o << "k1", "k30" >> }

RankInit ==
    /\ InitAnalyzer
    /\ values = << >>
    /\ percentiles = NoPercentiles
    /\ input \in Streams
    /\ output = NoOutput

\* The counting of a stream and the four ranked lists printed from it.
RankCounts ==
    /\ ~output.called
    /\ LET counts == Tally(input)
       IN  output' =
               [ called |-> TRUE,
                 counts |-> counts,
                 top_pairs |-> Prefix(SortedByNegatedCount(counts), TopPairs),
                 top_fillable |-> Prefix(SortedByNegatedCount(counts), TopFillablePairs),
                 pool_types |-> SortedByCountReverse(counts),
                 error_types |-> SortedByCountReverse(counts) ]
    /\ last_op' = "sorted"
    /\ UNCHANGED << pool_stats, available_liquidity, liquidity_files_processed,
                    error_types, error_examples, difference_distributions,
                    total_swaps, total_verified, total_errors, zero_amount_errors,
                    vm_errors, other_errors, v2_stats, v3_stats, files_done,
                    pending, ingested, last_swap, last_category, raised, report,
                    reported, values, percentiles, input >>

RankNext == RankCounts

SpecRanking == RankInit /\ [][RankNext]_vars

-----------------------------------------------------------------------------
(* parse_uint256 (analyze_order_volume.py, analyze_filled_orders.py)          *)

\* A Python int has no width: it is modelled by its digits in base 2^15,
\* least significant first, without leading zero digits (0 is << >>).
Base == 32768

\* The typed values parse_uint256 tells apart with isinstance.
PyInt(big) == [ type |-> "int", v |-> big ]

PyStr(str) == [ type |-> "str", v |-> str ]

PyNone == [ type |-> "NoneType" ]

PyBool(b) == [ type |-> "bool", b |-> b ]

\* big * m + a for small naturals m and a.
RECURSIVE MulAdd(_, _, _)
MulAdd(big, m, a) ==
    IF big = << >>
    THEN IF a = 0 THEN << >>
         ELSE << a % Base >> \o MulAdd(<< >>, m, a \div Base)
    ELSE LET t == big[1] * m + a
         IN  << t % Base >> \o MulAdd(Tail(big), m, t \div Base)

\* The digits int() accepts in bases up to 16, in either case.
DigitChars == "0123456789abcdef"

UpperDigitChars == "0123456789ABCDEF"

\* The value of a one-character string as a digit of the base, -1 when it
\* is not one.
DigitValue(c, base) ==
    IF \E d \in 0..(base - 1) :
           SubSeq(DigitChars, d + 1, d + 1) = c \/ SubSeq(UpperDigitChars, d + 1, d + 1) = c
    THEN CHOOSE d \in 0..(base - 1) :
           SubSeq(DigitChars, d + 1, d + 1) = c \/ SubSeq(UpperDigitChars, d + 1, d + 1) = c
    ELSE -1

\* The number of digits int() converts at a time: the most whose value
\* fits in one digit of the int.
ChunkWidth(base) == IF base = 10 THEN 4 ELSE 3

\* The value of a string of at most ChunkWidth digits of the base.
RECURSIVE ChunkValue(_, _)
ChunkValue(str, base) ==
    IF str = "" THEN 0
    ELSE ChunkValue(SubSeq(str, 1, Len(str) - 1), base) * base
         + DigitValue(SubSeq(str, Len(str), Len(str)), base)

\* The value of the first n characters of a string of digits of the base,
\* accumulated chunk by chunk from the left.
RECURSIVE DigitsValue(_, _, _)
DigitsValue(str, n, base) ==
    IF n = 0 THEN << >>
    ELSE LET w == ChunkWidth(base)
             k == IF n % w = 0 THEN w ELSE n % w
         IN  MulAdd(DigitsValue(str, n - k, base), base ^ k,
                    ChunkValue(SubSeq(str, n - k + 1, n), base))

\* int(str, base) for a string of digits of the base, after an optional
\* "0x" in base 16: the int, or ValueError for no digit or another character.
IntOf(str, base) ==
    LET digits == IF base = 16 /\ Len(str) >= 2 /\ SubSeq(str, 1, 2) = "0x"
                  THEN SubSeq(str, 3, Len(str))
                  ELSE str
    IN  IF digits = "" \/ \E i \in 1..Len(digits) : DigitValue(SubSeq(digits, i, i), base) < 0
        THEN [ raised |-> "ValueError" ]
        ELSE [ raised |-> "", value |-> PyInt(DigitsValue(digits, Len(digits), base)) ]

\* Variant: the parsed value kept in 64 bits.
parse_uint256In64Bits(value) ==
    LET Low64(big) ==
            LET cut == [ i \in 1..Min(Len(big), 5) |-> IF i = 5 THEN big[i] % 16 ELSE big[i] ]
                n == IF \E i \in 1..Len(cut) : cut[i] # 0
                     THEN CHOOSE i \in 1..Len(cut) :
                            cut[i] # 0 /\ \A j \in (i + 1)..Len(cut) : cut[j] = 0
                     ELSE 0
            IN  SubSeq(cut, 1, n)
        Wrapped(r) ==
            IF r.raised # "" THEN r
            ELSE [ raised |-> "", value |-> PyInt(Low64(r.value.v)) ]
    IN  IF value.type \in { "int", "bool" } THEN [ raised |-> "", value |-> value ]
        ELSE IF value.type = "str"
             THEN IF Len(value.v) >= 2 /\ SubSeq(value.v, 1, 2) = "0x"
                  THEN Wrapped(IntOf(value.v, 16))
                  ELSE Wrapped(IntOf(value.v, 10))
             ELSE [ raised |-> "", value |-> PyInt(<< >>) ]

\* parse_uint256(value)
parse_uint256(value) ==
    IF value.type \in { "int", "bool" } THEN [ raised |-> "", value |-> value ]
    ELSE IF value.type = "str"
         THEN IF Len(value.v) >= 2 /\ SubSeq(value.v, 1, 2) = "0x"
              THEN IntOf(value.v, 16)
              ELSE IntOf(value.v, 10)
         ELSE [ raised |-> "", value |-> PyInt(<< >>) ]

MaxSmall == 40

\* n as a Python int, for a natural number n below Base * Base.
FromNat(n) ==
    IF n = 0 THEN << >>
    ELSE IF n < Base THEN << n >>
    ELSE << n % Base, n \div Base >>

\* 2^n
Pow2(n) ==
    [ i \in 1..(n \div 15 + 1) |-> IF i = n \div 15 + 1 THEN 2 ^ (n % 15) ELSE 0 ]

\* 2^n - 1
Pow2Minus1(n) ==
    [ i \in 1..(n \div 15 + (IF n % 15 = 0 THEN 0 ELSE 1)) |->
        IF i = n \div 15 + 1 THEN 2 ^ (n % 15) - 1 ELSE Base - 1 ]

\* The integers parsed: the small ones, and values around 2^31, 2^63, 2^64,
\* 2^128 and the largest uint256.
ParsedIntegers ==
    { FromNat(n) : n \in 0..MaxSmall }
    \cup { FromNat(1000000007) }
    \cup { Pow2(n) : n \in { 31, 32, 63, 64, 128, 255 } }
    \cup { Pow2Minus1(n) : n \in { 31, 32, 63, 64, 128, 256 } }
    \cup { MulAdd(Pow2(64), 1, 1), MulAdd(Pow2(64), 10, 7), MulAdd(Pow2(128), 16, 9) }

\* How the integer reaches parse_uint256: as a decimal string, as "0x" and
\* hexadecimal digits in lower or upper case, or as an int.
Encodings == { "decimal", "hex", "HEX", "int" }

ParseInit ==
    /\ InitAnalyzer
    /\ values = << >>
    /\ percentiles = NoPercentiles
    /\ input \in [ v : ParsedIntegers, encoding : Encodings ]
    /\ output = NoOutput

\* big \div m and big % m for a small positive m, most significant digit
\* first: << quotient, remainder >>.
RECURSIVE DivMod(_, _)
DivMod(big, m) ==
    IF big = << >> THEN << << >>, 0 >>
    ELSE LET high == DivMod(Tail(big), m)
             t == high[2] * Base + big[1]
             q == t \div m
         IN  << IF q = 0 /\ high[1] = << >> THEN << >> ELSE << q >> \o high[1],
                t % m >>

\* The digits of a positive big in the base, "" for 0, a chunk at a time.
RECURSIVE DigitsOf(_, _, _)
DigitsOf(big, base, chars) ==
    IF big = << >> THEN ""
    ELSE LET w == ChunkWidth(base)
             qr == DivMod(big, base ^ w)
             digit(i) == (qr[2] \div (base ^ (w - i))) % base
             d(i) == SubSeq(chars, digit(i) + 1, digit(i) + 1)
             padded == IF w = 4 THEN d(1) \o d(2) \o d(3) \o d(4)
                       ELSE d(1) \o d(2) \o d(3)
             lead == CHOOSE j \in 0..w : \/ j = w /\ qr[2] = 0
                                         \/ j < w /\ qr[2] < base ^ (w - j)
                                                  /\ qr[2] >= base ^ (w - j - 1)
         IN  IF qr[1] = << >> THEN SubSeq(padded, lead + 1, w)
             ELSE DigitsOf(qr[1], base, chars) \o padded

\* str(v), and hex(v) with its digits in lower or upper case.
DecimalString(big) == IF big = << >> THEN "0" ELSE DigitsOf(big, 10, DigitChars)

HexString(big, chars) == "0x" \o (IF big = << >> THEN "0" ELSE DigitsOf(big, 16, chars))

\* The argument of parse_uint256 for an integer in an encoding.
Encoded(big, encoding) ==
    CASE encoding = "decimal" -> PyStr(DecimalString(big))
      [] encoding = "hex" -> PyStr(HexString(big, DigitChars))
      [] encoding = "HEX" -> PyStr(HexString(big, UpperDigitChars))
      [] OTHER -> PyInt(big)

ParseUint256 ==
    /\ ~output.called
    /\ LET value == Encoded(input.v, input.encoding)
       IN  output' = [ called |-> TRUE, value |-> value, result |-> parse_uint256(value) ]
    /\ last_op' = "parse_uint256"
    /\ UNCHANGED << pool_stats, available_liquidity, liquidity_files_processed,
                    error_types, error_examples, difference_distributions,
                    total_swaps, total_verified, total_errors, zero_amount_errors,
                    vm_errors, other_errors, v2_stats, v3_stats, files_done,
                    pending, ingested, last_swap, last_category, raised, report,
                    reported, values, percentiles, input >>

ParseNext == ParseUint256

SpecParse == ParseInit /\ [][ParseNext]_vars

-----------------------------------------------------------------------------
(* get_order_characteristics (analyze_filled_orders.py) and check_fillability *)
(* (analyze_order_volume.py): the order fields read under two names           *)

\* order.get(primary, order.get(alias, default)): the value under the
\* primary name when the key is there, whatever the value.
GetWithAlias(order, primary, alias, default) ==
    Get(order, primary, Get(order, alias, default))

\* The fields get_order_characteristics reads under two names;
\* check_fillability reads the first four of them the same way.
get_order_characteristics(order) ==
    [ sell_token |-> GetWithAlias(order, "sellToken", "sell_token", PyStr("")),
      buy_token |-> GetWithAlias(order, "buyToken", "buy_token", PyStr("")),
      sell_amount |->
          parse_uint256(GetWithAlias(order, "sellAmount", "sell_amount", PyStr("0"))),
      buy_amount |->
          parse_uint256(GetWithAlias(order, "buyAmount", "buy_amount", PyStr("0"))),
      valid_to |-> GetWithAlias(order, "validTo", "valid_to", PyInt(<< >>)),
      partially_fillable |->
          GetWithAlias(order, "partiallyFillable", "partially_fillable", PyBool(FALSE)) ]

\* The objects with each of the two keys absent or set to one of the values.
TwoKeys(primary, alias, primary_values, alias_values) ==
    { EmptyDict } \cup { primary :> v : v \in primary_values }
    \cup { alias :> v : v \in alias_values }
    \cup { (primary :> v) @@ (alias :> w) : v \in primary_values, w \in alias_values }

\* The orders: the sell amount, the expiry and the partial-fill flag each
\* absent, null or set under either name; the buy amount under its primary
\* name, the sell token under its alias, no buy token.
Orders ==
    { amount @@ expiry @@ flag
        @@ ("buyAmount" :> PyStr("3")) @@ ("sell_token" :> PyStr("0xa0b8")) :
        amount \in TwoKeys("sellAmount", "sell_amount",
                           { PyNone, PyStr("12"), PyStr("0x10") }, { PyNone, PyStr("7") }),
        expiry \in TwoKeys("validTo", "valid_to",
                           { PyNone, PyInt(<< 5 >>) }, { PyNone, PyInt(<< 9 >>) }),
        flag \in TwoKeys("partiallyFillable", "partially_fillable",
                         { PyNone }, { PyBool(TRUE) }) }

OrderInit ==
    /\ InitAnalyzer
    /\ values = << >>
    /\ percentiles = NoPercentiles
    /\ input \in Orders
    /\ output = NoOutput

GetOrderCharacteristics ==
    /\ ~output.called
    /\ output' = [ called |-> TRUE, fields |-> get_order_characteristics(input) ]
    /\ last_op' = "get_order_characteristics"
    /\ UNCHANGED << pool_stats, available_liquidity, liquidity_files_processed,
                    error_types, error_examples, difference_distributions,
                    total_swaps, total_verified, total_errors, zero_amount_errors,
                    vm_errors, other_errors, v2_stats, v3_stats, files_done,
                    pending, ingested, last_swap, last_category, raised, report,
                    reported, values, percentiles, input >>

OrderNext == GetOrderCharacteristics

SpecOrders == OrderInit /\ [][OrderNext]_vars

-----------------------------------------------------------------------------
(* run_full_analysis.py and check_solutions.py: the auction directory is a   *)
(* function from the names of the files present to their documents.  While   *)
(* main runs, `input` holds the directory main starts from and `output` the  *)
(* position of main, the directory as it stands and the values main holds.   *)

\* s.endswith(suffix)
EndsWith(s, suffix) ==
    /\ Len(suffix) <= Len(s)
    /\ SubSeq(s, Len(s) - Len(suffix) + 1, Len(s)) = suffix

\* Path.stem: the name without its last suffix.
Stem(name) ==
    LET dots == { i \in 2..Len(name) : SubSeq(name, i, i) = "." }
    IN  IF dots = {} THEN name
        ELSE SubSeq(name, 1, (CHOOSE i \in dots : \A j \in dots : j <= i) - 1)

\* s.replace(old, new): every non-overlapping occurrence, left to right.
RECURSIVE Replace(_, _, _)
Replace(s, old, new) ==
    IF Len(s) < Len(old) THEN s
    ELSE IF SubSeq(s, 1, Len(old)) = old
         THEN new \o Replace(SubSeq(s, Len(old) + 1, Len(s)), old, new)
         ELSE SubSeq(s, 1, 1) \o Replace(SubSeq(s, 2, Len(s)), old, new)

\* solution_file.stem.replace('_solutions', '')
AuctionIdOf(name) == Replace(Stem(name), "_solutions", "")

\* The documents a file can hold: text json.load rejects, a JSON list (on
\* which data.get raises), and a JSON object.
InvalidJson == [ type |-> "invalid" ]

JsonList == [ type |-> "list" ]

JsonDict(items) == [ type |-> "dict", items |-> items ]

\* json.load followed by data.get('solutions', []) raises on the first two.
LoadRaises(document) == document.type # "dict"

\* run_full_analysis.check_solutions over the sorted names of the glob.
RECURSIVE ScanFiles(_, _, _)
ScanFiles(names, files, stats) ==
    IF names = << >> THEN stats
    ELSE LET name == Head(names)
             auction_id == AuctionIdOf(name)
             solutions == Get(files[name].items, "solutions", << >>)
             next ==
                 IF Contains("enhanced", name) THEN stats
                 ELSE IF LoadRaises(files[name])
                 THEN [ stats EXCEPT !.errors = @ + 1 ]
                 ELSE IF solutions # << >>
                 THEN [ stats EXCEPT !.with_solutions = @ + 1,
                                     !.auction_ids = Append(@, auction_id) ]
                 ELSE [ stats EXCEPT !.empty = @ + 1,
                                     !.empty_auction_ids = Append(@, auction_id) ]
         IN  ScanFiles(Tail(names), files, next)

check_solutions(names, files) ==
    ScanFiles(names, files,
              [ total |-> Len(names), with_solutions |-> 0, empty |-> 0,
                errors |-> 0, auction_ids |-> << >>, empty_auction_ids |-> << >> ])

\* check_solutions.check_solutions over the same names: no file is skipped,
\* and len(solutions) decides.
RECURSIVE CountFiles(_, _, _)
CountFiles(names, files, stats) ==
    IF names = << >> THEN stats
    ELSE LET name == Head(names)
             solutions == Get(files[name].items, "solutions", << >>)
             next ==
                 IF LoadRaises(files[name]) THEN [ stats EXCEPT !.error = @ + 1 ]
                 ELSE IF Len(solutions) = 0 THEN [ stats EXCEPT !.empty = @ + 1 ]
                 ELSE [ stats EXCEPT !.with_solutions = @ + 1 ]
         IN  CountFiles(Tail(names), files, next)

check_solutions_script(names, files) ==
    CountFiles(names, files,
               [ total |-> Len(names), empty |-> 0, with_solutions |-> 0, error |-> 0 ])

\* file_patterns of cleanup_empty_auctions.
file_patterns ==
    << "_auction.json", "_competition.json", "_liquidity.json", "_solutions.json",
       "_enhanced_solutions.json", "_solution_verification.json", "_analysis.json" >>

required_suffixes ==
    << "_auction.json", "_competition.json", "_liquidity.json", "_solutions.json" >>

Range(q) == { q[i] : i \in 1..Len(q) }

\* The files cleanup_empty_auctions unlinks: those named by an empty auction
\* id and a pattern that exist and whose unlink does not raise.
Removed(files, empty_auction_ids, locked) ==
    { name \in DOMAIN files \ locked :
        \E id \in Range(empty_auction_ids), pattern \in Range(file_patterns) :
            name = id \o pattern }

Restrict(files, names) == [ name \in names |-> files[name] ]

cleanup_empty_auctions(files, stats, locked) ==
    Restrict(files, DOMAIN files
                    \ Removed(files, stats.empty_auction_ids, locked))

\* check_required_files: the auction ids, in order, with every required file.
check_required_files(files, auction_ids) ==
    SelectSeq(auction_ids,
              LAMBDA id : \A suffix \in Range(required_suffixes) :
                              (id \o suffix) \in DOMAIN files)

\* auction_dir.glob(pattern) for a pattern "*<suffix>", as a set.
Glob(files, suffix) == { name \in DOMAIN files : EndsWith(name, suffix) }

\* Variant: the summary is produced from an empty list of analysis files too.
SummaryAlways(files) == Val([ total_auctions |-> Cardinality(Glob(files, "_analysis.json")) ])

\* generate_summary_report: None without analysis files, else the statistics
\* (of which main reads total_auctions).
generate_summary_report(files) ==
    IF Glob(files, "_analysis.json") = {} THEN None
    ELSE Val([ total_auctions |-> Cardinality(Glob(files, "_analysis.json")) ])

MaxAuctions == 2

AuctionIds == { ToString(i) : i \in 1..MaxAuctions }

NoSolutions == JsonDict(EmptyDict)

EmptySolutions == JsonDict([ k \in { "solutions" } |-> << >> ])

SomeSolutions == JsonDict([ k \in { "solutions" } |-> << "solution" >> ])

\* What the directory holds of one auction: the document of its solutions
\* file (or "absent"), and which of its other files are there.
AuctionStates ==
    { [ solutions |-> Val(SomeSolutions), enhanced |-> FALSE, liquidity |-> TRUE, analysis |-> FALSE ],
      [ solutions |-> Val(SomeSolutions), enhanced |-> TRUE, liquidity |-> TRUE, analysis |-> TRUE ],
      [ solutions |-> Val(SomeSolutions), enhanced |-> FALSE, liquidity |-> FALSE, analysis |-> FALSE ],
      [ solutions |-> Val(EmptySolutions), enhanced |-> TRUE, liquidity |-> TRUE, analysis |-> TRUE ],
      [ solutions |-> Val(NoSolutions), enhanced |-> FALSE, liquidity |-> FALSE, analysis |-> FALSE ],
      [ solutions |-> Val(InvalidJson), enhanced |-> FALSE, liquidity |-> TRUE, analysis |-> TRUE ],
      [ solutions |-> Val(JsonList), enhanced |-> TRUE, liquidity |-> TRUE, analysis |-> FALSE ],
      [ solutions |-> None, enhanced |-> TRUE, liquidity |-> TRUE, analysis |-> FALSE ] }

\* The names of the files of an auction in a state.
NamesOf(id, state) ==
    { id \o "_auction.json", id \o "_competition.json" }
    \cup (IF state.liquidity THEN { id \o "_liquidity.json" } ELSE {})
    \cup (IF state.analysis THEN { id \o "_analysis.json" } ELSE {})
    \cup (IF state.enhanced THEN { id \o "_enhanced_solutions.json" } ELSE {})
    \cup (IF state.solutions # None THEN { id \o "_solutions.json" } ELSE {})

\* A second file whose name yields the auction id "1".
TwiceSuffixed == "1_solutions_solutions.json"

\* The directory of the auctions in the given states, with the document
\* `twice` (or None) in the file TwiceSuffixed.
DirectoryOf(states, twice) ==
    [ name \in UNION { NamesOf(id, states[id]) : id \in AuctionIds }
               \cup (IF twice # None THEN { TwiceSuffixed } ELSE {}) |->
        IF name = TwiceSuffixed THEN twice[1]
        ELSE IF EndsWith(name, "_enhanced_solutions.json") THEN SomeSolutions
        ELSE IF EndsWith(name, "_solutions.json")
        THEN states[AuctionIdOf(name)].solutions[1]
        ELSE NoSolutions ]

Directories ==
    { DirectoryOf(states, twice) :
        states \in [ AuctionIds -> AuctionStates ],
        twice \in { None, Val(SomeSolutions), Val(EmptySolutions) } }

\* sorted(auction_dir.glob("*_solutions.json")): per auction the names sort as
\* <id>_enhanced_solutions.json < <id>_solutions.json < <id>_solutions_solutions.json.
SortedSolutionFiles(files) ==
    LET order == [ i \in 1..(3 * MaxAuctions) |->
                     ToString((i + 2) \div 3)
                     \o << "_enhanced_solutions.json", "_solutions.json",
                           "_solutions_solutions.json" >>[((i + 2) % 3) + 1] ]
    IN  SelectSeq(order, LAMBDA name : name \in Glob(files, "_solutions.json"))

\* The directories main can start from, with the files whose unlink raises;
\* without the directory auction-data/mainnet main returns at once.
PipelineInputs ==
    { [ exists |-> FALSE, files |-> EmptyDict, locked |-> {} ] }
    \cup { [ exists |-> TRUE, files |-> files, locked |-> locked ] :
             files \in Directories, locked \in { {}, { "1_auction.json" } } }

\* main before its first statement.
MainStart(files) ==
    [ pc |-> "main", files |-> files, steps |-> << >>, returned |-> None,
      solution_stats |-> None, valid_auctions |-> << >>, analysis_ok |-> None,
      verification_ok |-> None, stats |-> None, saved |-> FALSE ]

PipelineInit ==
    /\ InitAnalyzer
    /\ values = << >>
    /\ percentiles = NoPercentiles
    /\ input \in PipelineInputs
    /\ output = MainStart(input.files)

Return(out, code) == [ out EXCEPT !.pc = "returned", !.returned = Val(code) ]

Step(out, name, pc) == [ out EXCEPT !.steps = Append(@, name), !.pc = pc ]

\* main up to the scan: without the auction directory it returns 1.
Main ==
    /\ output.pc = "main"
    /\ output' = IF input.exists THEN [ output EXCEPT !.pc = "check_solutions" ]
                 ELSE Return(output, 1)
    /\ last_op' = "main"
    /\ UNCHANGED << pool_stats, available_liquidity, liquidity_files_processed,
                    error_types, error_examples, difference_distributions,
                    total_swaps, total_verified, total_errors, zero_amount_errors,
                    vm_errors, other_errors, v2_stats, v3_stats, files_done,
                    pending, ingested, last_swap, last_category, raised, report,
                    reported, values, percentiles, input >>

\* Step 1.
CheckSolutions ==
    /\ output.pc = "check_solutions"
    /\ output' = [ Step(output, "check_solutions", "cleanup_empty_auctions")
                     EXCEPT !.solution_stats =
                         Val(check_solutions(SortedSolutionFiles(output.files),
                                             output.files)) ]
    /\ last_op' = "check_solutions"
    /\ UNCHANGED << pool_stats, available_liquidity, liquidity_files_processed,
                    error_types, error_examples, difference_distributions,
                    total_swaps, total_verified, total_errors, zero_amount_errors,
                    vm_errors, other_errors, v2_stats, v3_stats, files_done,
                    pending, ingested, last_swap, last_category, raised, report,
                    reported, values, percentiles, input >>

\* Step 2, and the return of main when no file holds a solution.
CleanupEmptyAuctions ==
    /\ output.pc = "cleanup_empty_auctions"
    /\ LET cleaned == [ Step(output, "cleanup_empty_auctions", "check_required_files")
                          EXCEPT !.files = cleanup_empty_auctions(
                              output.files, output.solution_stats[1], input.locked) ]
       IN  output' = IF output.solution_stats[1].with_solutions = 0
                     THEN Return(cleaned, 0)
                     ELSE cleaned
    /\ last_op' = "cleanup_empty_auctions"
    /\ UNCHANGED << pool_stats, available_liquidity, liquidity_files_processed,
                    error_types, error_examples, difference_distributions,
                    total_swaps, total_verified, total_errors, zero_amount_errors,
                    vm_errors, other_errors, v2_stats, v3_stats, files_done,
                    pending, ingested, last_swap, last_category, raised, report,
                    reported, values, percentiles, input >>

\* Step 3, and the return of main when no auction has every required file.
CheckRequiredFiles ==
    /\ output.pc = "check_required_files"
    /\ LET valid_auctions ==
               check_required_files(output.files, output.solution_stats[1].auction_ids)
           checked == [ Step(output, "check_required_files", "generate_analysis")
                          EXCEPT !.valid_auctions = valid_auctions ]
       IN  output' = IF valid_auctions = << >> THEN Return(checked, 1) ELSE checked
    /\ last_op' = "check_required_files"
    /\ UNCHANGED << pool_stats, available_liquidity, liquidity_files_processed,
                    error_types, error_examples, difference_distributions,
                    total_swaps, total_verified, total_errors, zero_amount_errors,
                    vm_errors, other_errors, v2_stats, v3_stats, files_done,
                    pending, ingested, last_swap, last_category, raised, report,
                    reported, values, percentiles, input >>

\* Step 4: the subprocess writes analysis files of auctions and exits with a
\* status (or times out); main returns 1 when generate_analysis is False.
GenerateAnalysis ==
    /\ output.pc = "generate_analysis"
    /\ \E ok \in BOOLEAN, written \in SUBSET Range(output.valid_auctions) :
         LET analysis == [ name \in { id \o "_analysis.json" : id \in written } |->
                             NoSolutions ]
             generated == [ Step(output, "generate_analysis", "run_verification")
                              EXCEPT !.files = analysis @@ output.files,
                                     !.analysis_ok = Val(ok) ]
         IN  output' = IF ok THEN generated ELSE Return(generated, 1)
    /\ last_op' = "generate_analysis"
    /\ UNCHANGED << pool_stats, available_liquidity, liquidity_files_processed,
                    error_types, error_examples, difference_distributions,
                    total_swaps, total_verified, total_errors, zero_amount_errors,
                    vm_errors, other_errors, v2_stats, v3_stats, files_done,
                    pending, ingested, last_swap, last_category, raised, report,
                    reported, values, percentiles, input >>

\* Step 5: main drops the result of run_verification.
RunVerification ==
    /\ output.pc = "run_verification"
    /\ \E ok \in BOOLEAN :
         output' = [ Step(output, "run_verification", "generate_summary_report")
                       EXCEPT !.verification_ok = Val(ok) ]
    /\ last_op' = "run_verification"
    /\ UNCHANGED << pool_stats, available_liquidity, liquidity_files_processed,
                    error_types, error_examples, difference_distributions,
                    total_swaps, total_verified, total_errors, zero_amount_errors,
                    vm_errors, other_errors, v2_stats, v3_stats, files_done,
                    pending, ingested, last_swap, last_category, raised, report,
                    reported, values, percentiles, input >>

\* Step 6, and the return of main on `not stats`.
GenerateSummaryReport ==
    /\ output.pc = "generate_summary_report"
    /\ LET stats == generate_summary_report(output.files)
           summarised == [ Step(output, "generate_summary_report", "save_report")
                             EXCEPT !.stats = stats ]
       IN  output' = IF stats = None THEN Return(summarised, 1) ELSE summarised
    /\ last_op' = "generate_summary_report"
    /\ UNCHANGED << pool_stats, available_liquidity, liquidity_files_processed,
                    error_types, error_examples, difference_distributions,
                    total_swaps, total_verified, total_errors, zero_amount_errors,
                    vm_errors, other_errors, v2_stats, v3_stats, files_done,
                    pending, ingested, last_swap, last_category, raised, report,
                    reported, values, percentiles, input >>

\* Step 7, and the final return of main.
SaveReport ==
    /\ output.pc = "save_report"
    /\ output' = Return([ Step(output, "save_report", "returned")
                            EXCEPT !.saved = TRUE ], 0)
    /\ last_op' = "save_report"
    /\ UNCHANGED << pool_stats, available_liquidity, liquidity_files_processed,
                    error_types, error_examples, difference_distributions,
                    total_swaps, total_verified, total_errors, zero_amount_errors,
                    vm_errors, other_errors, v2_stats, v3_stats, files_done,
                    pending, ingested, last_swap, last_category, raised, report,
                    reported, values, percentiles, input >>

PipelineNext ==
    \/ Main
    \/ CheckSolutions
    \/ CleanupEmptyAuctions
    \/ CheckRequiredFiles
    \/ GenerateAnalysis
    \/ RunVerification
    \/ GenerateSummaryReport
    \/ SaveReport

SpecPipeline == PipelineInit /\ [][PipelineNext]_vars

-----------------------------------------------------------------------------
(* Specification of the two scans of the solution files, each run once on a  *)
(* directory: run_full_analysis.check_solutions and the script               *)
(* check_solutions.py.                                                       *)

ScanInit ==
    /\ InitAnalyzer
    /\ values = << >>
    /\ percentiles = NoPercentiles
    /\ input \in { directory \in PipelineInputs : directory.exists }
    /\ output = NoOutput

ScanOfPipeline ==
    /\ ~output.called
    /\ output' = [ called |-> TRUE,
                   stats |-> Val(check_solutions(SortedSolutionFiles(input.files),
                                                 input.files)) ]
    /\ last_op' = "run_full_analysis.check_solutions"
    /\ UNCHANGED << pool_stats, available_liquidity, liquidity_files_processed,
                    error_types, error_examples, difference_distributions,
                    total_swaps, total_verified, total_errors, zero_amount_errors,
                    vm_errors, other_errors, v2_stats, v3_stats, files_done,
                    pending, ingested, last_swap, last_category, raised, report,
                    reported, values, percentiles, input >>

\* check_solutions.py returns no statistics when the glob is empty.
ScanOfScript ==
    /\ ~output.called
    /\ output' = [ called |-> TRUE,
                   stats |-> IF SortedSolutionFiles(input.files) = << >> THEN None
                             ELSE Val(check_solutions_script(
                                          SortedSolutionFiles(input.files), input.files)) ]
    /\ last_op' = "check_solutions.check_solutions"
    /\ UNCHANGED << pool_stats, available_liquidity, liquidity_files_processed,
                    error_types, error_examples, difference_distributions,
                    total_swaps, total_verified, total_errors, zero_amount_errors,
                    vm_errors, other_errors, v2_stats, v3_stats, files_done,
                    pending, ingested, last_swap, last_category, raised, report,
                    reported, values, percentiles, input >>

ScanNext == ScanOfPipeline \/ ScanOfScript

SpecScan == ScanInit /\ [][ScanNext]_vars

-----------------------------------------------------------------------------
(* compare_solutions_detailed.analyze_solution_detailed: the documents of an *)
(* auction are dicts of the fields the analysis reads, amounts as the        *)
(* decimal strings of the JSON files.                                        *)

\* int(text) for a string of decimal digits.
int(text) == ChunkValue(text, 10)

\* Variant: the buy amount is divided before it is scaled.
EffectiveBuyMinDivideFirst(auction_order, executed_amount) ==
    LET sell_amount == int(auction_order["sellAmount"])
        buy_amount_min == int(auction_order["buyAmount"])
    IN  IF Get(auction_order, "partiallyFillable", FALSE) /\ sell_amount > 0
        THEN (buy_amount_min \div sell_amount) * executed_amount
        ELSE buy_amount_min

\* effective_buy_min: prorated with // for a partially fillable order with a
\* positive sell amount, the full minimum otherwise.
EffectiveBuyMin(auction_order, executed_amount) ==
    LET sell_amount == int(auction_order["sellAmount"])
        buy_amount_min == int(auction_order["buyAmount"])
    IN  IF Get(auction_order, "partiallyFillable", FALSE) /\ sell_amount > 0
        THEN (buy_amount_min * executed_amount) \div sell_amount
        ELSE buy_amount_min

\* The dict built by storing values[i] under keys[i] for i = 1, 2, ...: the
\* last value stored under a key stays.
DictOf(keys, vals) ==
    [ k \in { keys[i] : i \in 1..Len(keys) } |->
        vals[CHOOSE i \in 1..Len(keys) :
                 /\ keys[i] = k
                 /\ \A j \in (i + 1)..Len(keys) : keys[j] # k] ]

\* The pairs of the two loops over the winners and their orders, in order.
RECURSIVE WinnerPairs(_)
WinnerPairs(winners) ==
    IF winners = << >> THEN << >>
    ELSE [ i \in 1..Len(Get(Head(winners), "orders", << >>)) |->
             [ order |-> Head(winners)["orders"][i], winner |-> Head(winners) ] ]
         \o WinnerPairs(Tail(winners))

\* winner_orders: the orders of the solutions marked isWinner, by order id.
WinnerOrders(comp_data) ==
    LET pairs == WinnerPairs(SelectSeq(Get(comp_data, "solutions", << >>),
                                       LAMBDA s : Get(s, "isWinner", FALSE)))
    IN  DictOf([ i \in 1..Len(pairs) |-> pairs[i].order["id"] ], pairs)

\* our_output: the output amount of the first interaction paying the buy
\* token, 0 without one.
OurOutput(interactions, buy_token) ==
    LET paying == { i \in 1..Len(interactions) :
                      interactions[i]["outputToken"] = buy_token }
    IN  IF paying = {} THEN 0
        ELSE int(interactions[CHOOSE i \in paying : \A j \in paying : i <= j]["outputAmount"])

\* The body of the loop over the trades for a trade of a known order.
AnalyzedTrade(result, trade, auction_order, winner_orders, interactions) ==
    LET order_id == trade["order"]
        executed_amount == int(Get(trade, "executedAmount", "0"))
        effective_buy_min == EffectiveBuyMin(auction_order, executed_amount)
        our_output == OurOutput(interactions, auction_order["buyToken"])
        has_winner == order_id \in DOMAIN winner_orders
        winner_output == int(winner_orders[order_id].order["buyAmount"])
        trade_detail ==
            [ order_id |-> order_id, executed_amount |-> executed_amount,
              effective_buy_min |-> effective_buy_min, our_output |-> our_output,
              valid |-> our_output >= effective_buy_min,
              winner_output |-> IF has_winner THEN Val(winner_output) ELSE None ]
    IN  [ result EXCEPT
            !.beat_winner = @ \/ (has_winner /\ our_output >= winner_output),
            !.valid = @ /\ trade_detail.valid,
            !.trades = Append(@, trade_detail) ]

\* The loop over the trades of our solution; a trade of an order the auction
\* does not list is skipped.
RECURSIVE AnalyzedTrades(_, _, _, _, _)
AnalyzedTrades(result, trades, auction_orders, winner_orders, interactions) ==
    IF trades = << >> THEN result
    ELSE AnalyzedTrades(
             IF Head(trades)["order"] \in DOMAIN auction_orders
             THEN AnalyzedTrade(result, Head(trades),
                                auction_orders[Head(trades)["order"]],
                                winner_orders, interactions)
             ELSE result,
             Tail(trades), auction_orders, winner_orders, interactions)

\* analyze_solution_detailed: the fields of the result the verdicts are
\* made of.
analyze_solution_detailed(data) ==
    LET our_sol == data.solutions["solutions"][1]
        orders == Get(data.auction, "orders", << >>)
        auction_orders == DictOf([ i \in 1..Len(orders) |-> orders[i]["uid"] ], orders)
        analysed == AnalyzedTrades([ valid |-> TRUE, beat_winner |-> FALSE, trades |-> << >> ],
                                   Get(our_sol, "trades", << >>), auction_orders,
                                   WinnerOrders(data.competition),
                                   Get(our_sol, "interactions", << >>))
    IN  [ valid |-> analysed.valid, beat_winner |-> analysed.beat_winner,
          competitive |-> analysed.valid /\ analysed.beat_winner,
          trades |-> analysed.trades ]

MaxTrades == 2

MaxWinners == 2

Dict1(k1, v1) == k1 :> v1

\* The order "o1" of the auction: partially fillable or not (or without the
\* flag), selling 3 or 0 for at least 10 of token B.
AuctionOrders ==
    { ("uid" :> "o1") @@ ("sellToken" :> "A") @@ ("buyToken" :> "B")
        @@ ("sellAmount" :> sell) @@ ("buyAmount" :> "10") @@ flag :
        sell \in { "3", "0" },
        flag \in { EmptyDict, Dict1("partiallyFillable", TRUE),
                   Dict1("partiallyFillable", FALSE) } }

\* Trades of "o1" executing 0, 2 or 3 of its 3 (or naming no amount), and a
\* trade of an order the auction does not list.
Trades ==
    { ("order" :> "o1") @@ ("executedAmount" :> "2"),
      ("order" :> "o1") @@ ("executedAmount" :> "3"),
      ("order" :> "o1") @@ ("executedAmount" :> "0"),
      ("order" :> "ox") @@ ("executedAmount" :> "1") }

Interactions ==
    { << >>,
      << ("outputToken" :> "B") @@ ("outputAmount" :> "10") >>,
      << ("outputToken" :> "B") @@ ("outputAmount" :> "7") >>,
      << ("outputToken" :> "C") @@ ("outputAmount" :> "99"),
         ("outputToken" :> "B") @@ ("outputAmount" :> "6") >>,
      << ("outputToken" :> "B") @@ ("outputAmount" :> "3"),
         ("outputToken" :> "B") @@ ("outputAmount" :> "10") >> }

\* Solutions of the competition: winners filling "o1" for 5 or for 9, a loser
\* filling it for 1, and a winner filling another order.
CompetitionSolutions ==
    { ("isWinner" :> TRUE) @@ ("orders" :> << ("id" :> "o1") @@ ("buyAmount" :> "5") >>),
      ("isWinner" :> TRUE) @@ ("orders" :> << ("id" :> "o1") @@ ("buyAmount" :> "9") >>),
      ("isWinner" :> FALSE) @@ ("orders" :> << ("id" :> "o1") @@ ("buyAmount" :> "1") >>),
      ("isWinner" :> TRUE) @@ ("orders" :> << ("id" :> "oy") @@ ("buyAmount" :> "1") >>) }

AuctionData ==
    { [ auction |-> Dict1("orders", << order >>),
        solutions |-> Dict1("solutions",
                            << ("trades" :> trades) @@ ("interactions" :> interactions) >>),
        competition |-> Dict1("solutions", competition) ] :
        order \in AuctionOrders,
        trades \in SeqsUpTo(Trades, MaxTrades),
        interactions \in Interactions,
        competition \in SeqsUpTo(CompetitionSolutions, MaxWinners) }

TradesInit ==
    /\ InitAnalyzer
    /\ values = << >>
    /\ percentiles = NoPercentiles
    /\ input \in AuctionData
    /\ output = NoOutput

AnalyzeSolutionDetailed ==
    /\ ~output.called
    /\ output' = [ called |-> TRUE, result |-> analyze_solution_detailed(input) ]
    /\ last_op' = "analyze_solution_detailed"
    /\ UNCHANGED << pool_stats, available_liquidity, liquidity_files_processed,
                    error_types, error_examples, difference_distributions,
                    total_swaps, total_verified, total_errors, zero_amount_errors,
                    vm_errors, other_errors, v2_stats, v3_stats, files_done,
                    pending, ingested, last_swap, last_category, raised, report,
                    reported, values, percentiles, input >>

TradesNext == AnalyzeSolutionDetailed

SpecTrades == TradesInit /\ [][TradesNext]_vars

-----------------------------------------------------------------------------
(* analyze_order_volume.py: check_fillability and the loop of                *)
(* analyze_order_volume over the auction files.                              *)

\* The value of an int of at most one digit of the base.
SmallValue(big) == IF big = << >> THEN 0 ELSE big[1]

\* x / y of two quotients, y not 0.
FracDiv(x, y) == Frac(x[1] * y[2], x[2] * y[1])

\* x >= n for a quotient of positive denominator.
FracAtLeast(x, n) == x[1] >= n * x[2]

\* tokens.get(token, {}).get("referencePrice"): None for an unknown token (a
\* null token is one) and for a token without the price.
ReferencePrice(tokens, token) ==
    IF token.type = "str" /\ token.v \in DOMAIN tokens
    THEN Get(tokens[token.v], "referencePrice", PyNone)
    ELSE PyNone

\* The result of check_fillability without an exception.
Fillability(is_fillable, deviation, reason) ==
    [ raised |-> "", is_fillable |-> is_fillable, deviation |-> deviation,
      reason |-> reason ]

\* is_fillable = deviation_pct >= -1.0
Fillable(deviation_pct) == FracAtLeast(deviation_pct, -1)

\* check_fillability(order, tokens)
check_fillability(order, tokens) ==
    LET fields == get_order_characteristics(order)
        sell_amount == fields.sell_amount
        buy_amount == fields.buy_amount
        kind == Get(order, "kind", PyStr("sell"))
        sell_ref == ReferencePrice(tokens, fields.sell_token)
        buy_ref == ReferencePrice(tokens, fields.buy_token)
        order_rate == Frac(SmallValue(buy_amount.value.v), SmallValue(sell_amount.value.v))
        market_rate == Frac(SmallValue(parse_uint256(sell_ref).value.v),
                            SmallValue(parse_uint256(buy_ref).value.v))
        deviation_pct ==
            LET quotient == FracDiv(FracSub(market_rate, order_rate), market_rate)
            IN  Frac(quotient[1] * 100, quotient[2])
    IN  IF sell_amount.raised # "" THEN [ raised |-> sell_amount.raised ]
        ELSE IF buy_amount.raised # "" THEN [ raised |-> buy_amount.raised ]
        ELSE IF kind.type # "str" THEN [ raised |-> "AttributeError" ]
        ELSE IF sell_amount.value.v = << >> \/ buy_amount.value.v = << >>
        THEN Fillability(FALSE, None, "zero_amount")
        ELSE IF sell_ref = PyNone \/ buy_ref = PyNone
        THEN Fillability(FALSE, None, "no_ref_price")
        ELSE IF parse_uint256(sell_ref).raised # ""
        THEN [ raised |-> parse_uint256(sell_ref).raised ]
        ELSE IF parse_uint256(buy_ref).raised # ""
        THEN [ raised |-> parse_uint256(buy_ref).raised ]
        ELSE IF parse_uint256(sell_ref).value.v = << >> \/ parse_uint256(buy_ref).value.v = << >>
        THEN Fillability(FALSE, None, "zero_ref_price")
        ELSE IF market_rate[1] = 0
        THEN Fillability(FALSE, None, "zero_market_rate")
        ELSE Fillability(Fillable(deviation_pct), Val(deviation_pct), "ok")

\* token_name(address) raises on an address that is no str.
TokenNameRaises(order) ==
    \/ GetWithAlias(order, "sellToken", "sell_token", PyStr("?")).type # "str"
    \/ GetWithAlias(order, "buyToken", "buy_token", PyStr("?")).type # "str"

\* The total an order is counted in once check_fillability has returned.
Counted(counters, checked) ==
    IF checked.reason # "ok"
    THEN [ counters EXCEPT !.total_no_ref = @ + 1 ]
    ELSE IF checked.is_fillable
    THEN [ counters EXCEPT !.total_fillable = @ + 1 ]
    ELSE [ counters EXCEPT !.total_unfillable = @ + 1 ]

\* The loop over the orders of one auction: each order is counted in one of
\* the three totals as it is met; an exception leaves the loop with the
\* orders before it counted.  (Each intermediate value is bound as the
\* element of a one-element set, so that it is computed once.)
RECURSIVE CountOrders(_, _, _)
CountOrders(counters, orders, tokens) ==
    IF orders = << >> THEN counters
    ELSE IF Get(Head(orders), "class", PyStr("unknown")).type # "str"
    THEN [ counters EXCEPT !.raised = "AttributeError" ]
    ELSE CHOOSE counted \in
             { IF checked.raised # ""
               THEN [ counters EXCEPT !.raised = checked.raised ]
               ELSE CHOOSE rest \in
                        { CountOrders(next, Tail(orders), tokens) :
                            next \in { Counted(counters, checked) } } : TRUE :
               checked \in { check_fillability(Head(orders), tokens) } } : TRUE

\* The body of the loop over the auction files: the auction is appended to
\* orders_per_auction unless reading it, an order or a token pair raised.
AnalyzedAuction(counters, file) ==
    IF ~file.readable THEN counters
    ELSE CHOOSE analyzed \in
             { IF counted.raised # "" THEN counted
               ELSE IF \E i \in 1..Len(file.orders) : TokenNameRaises(file.orders[i])
               THEN [ counted EXCEPT !.raised = "AttributeError" ]
               ELSE [ counted EXCEPT !.order_counts = Append(@, Len(file.orders)) ] :
               counted \in { CountOrders([ counters EXCEPT !.raised = "" ],
                                         file.orders, file.tokens) } } : TRUE

MaxAuctionFiles == 3

\* The tokens section of an auction: reference prices 1, 1, 2 and 0, a null
\* price and a token without price; token "C" is unknown.
Tokens ==
    ("A" :> Dict1("referencePrice", PyStr("1")))
    @@ ("B" :> Dict1("referencePrice", PyStr("1")))
    @@ ("D" :> Dict1("referencePrice", PyStr("2")))
    @@ ("Z" :> Dict1("referencePrice", PyStr("0")))
    @@ ("N" :> Dict1("referencePrice", PyNone))
    @@ ("E" :> EmptyDict)

OrderOfVolume(sell_token, buy_token, sell_amount, buy_amount) ==
    ("sellToken" :> sell_token) @@ ("buyToken" :> buy_token)
    @@ ("sellAmount" :> PyStr(sell_amount)) @@ ("buyAmount" :> PyStr(buy_amount))

AuctionFile(orders) == [ readable |-> TRUE, orders |-> orders, tokens |-> Tokens ]

\* The auction files: a file json.load rejects, a file without orders, and
\* files with orders at the market rate, inside and outside the tolerance,
\* below a market rate of 2, without amount, without, with a null and with a
\* zero reference price, with a null class and with a null sell token.
AuctionFiles ==
    { [ readable |-> FALSE, orders |-> << >>, tokens |-> EmptyDict ],
      AuctionFile(<< >>),
      AuctionFile(<< OrderOfVolume(PyStr("A"), PyStr("B"), "100", "100")
                       @@ Dict1("class", PyStr("market")) >>),
      AuctionFile(<< OrderOfVolume(PyStr("A"), PyStr("B"), "200", "201")
                       @@ Dict1("class", PyStr("limit")),
                     OrderOfVolume(PyStr("A"), PyStr("B"), "100", "102") >>),
      AuctionFile(<< OrderOfVolume(PyStr("D"), PyStr("B"), "100", "150")
                       @@ Dict1("kind", PyStr("buy")),
                     OrderOfVolume(PyStr("A"), PyStr("C"), "0", "5") >>),
      AuctionFile(<< OrderOfVolume(PyStr("C"), PyStr("Z"), "5", "5"),
                     OrderOfVolume(PyStr("N"), PyStr("B"), "5", "5"),
                     OrderOfVolume(PyStr("E"), PyStr("B"), "5", "5") >>),
      AuctionFile(<< OrderOfVolume(PyStr("Z"), PyStr("B"), "5", "5") >>),
      AuctionFile(<< OrderOfVolume(PyStr("A"), PyStr("B"), "100", "102"),
                     OrderOfVolume(PyStr("A"), PyStr("B"), "100", "100")
                       @@ Dict1("class", PyNone) >>),
      AuctionFile(<< OrderOfVolume(PyNone, PyStr("B"), "100", "100") >>) }

\* The counters before the loop over the files.
NoOrdersCounted ==
    [ raised |-> "", total_fillable |-> 0, total_unfillable |-> 0,
      total_no_ref |-> 0, order_counts |-> << >> ]

RECURSIVE AnalyzedAuctions(_, _)
AnalyzedAuctions(counters, files) ==
    IF files = << >> THEN counters
    ELSE CHOOSE analyzed \in
             { AnalyzedAuctions(counted, Tail(files)) :
                 counted \in { AnalyzedAuction(counters, Head(files)) } } : TRUE

RECURSIVE Sum(_)
Sum(q) == IF q = << >> THEN 0 ELSE Head(q) + Sum(Tail(q))

\* analyze_order_volume over the auction files: the three totals, and the
\* summary with total_orders and total_checked unless no auction was
\* analysed.
analyze_order_volume(files) ==
    CHOOSE result \in
        { [ total_fillable |-> counted.total_fillable,
            total_unfillable |-> counted.total_unfillable,
            total_no_ref |-> counted.total_no_ref,
            order_counts |-> counted.order_counts,
            summary |-> IF counted.order_counts = << >> THEN None
                        ELSE Val([ total_orders |-> Sum(counted.order_counts),
                                   total_checked |-> counted.total_fillable
                                                     + counted.total_unfillable ]) ] :
          counted \in { AnalyzedAuctions(NoOrdersCounted, files) } } : TRUE

VolumeInit ==
    /\ InitAnalyzer
    /\ values = << >>
    /\ percentiles = NoPercentiles
    /\ input \in SeqsUpTo(AuctionFiles, MaxAuctionFiles)
    /\ output = NoOutput

AnalyzeOrderVolume ==
    /\ ~output.called
    /\ output' = [ called |-> TRUE, result |-> analyze_order_volume(input) ]
    /\ last_op' = "analyze_order_volume"
    /\ UNCHANGED << pool_stats, available_liquidity, liquidity_files_processed,
                    error_types, error_examples, difference_distributions,
                    total_swaps, total_verified, total_errors, zero_amount_errors,
                    vm_errors, other_errors, v2_stats, v3_stats, files_done,
                    pending, ingested, last_swap, last_category, raised, report,
                    reported, values, percentiles, input >>

VolumeNext == AnalyzeOrderVolume

SpecVolume == VolumeInit /\ [][VolumeNext]_vars

-----------------------------------------------------------------------------
(* Properties *)

\* The pool key under which _analyze_swap files a swap.
KeyOf(swap) ==
    PoolKey(Get(swap, "kind", Val("unknown")), Get(swap, "pool_version", Val("Unknown")))

\* The swap is verified, as _analyze_swap reads it.
Verified(swap) == IsTrue(Get(swap, "verified", Val(FALSE)))

\* The five magnitude buckets of an entry, summed.
BucketSum(st) ==
    st.perfect + st.within_1bps + st.within_10bps + st.within_100bps + st.over_100bps

\* The calls so far whose swap satisfies P, as indices into `ingested`.
Calls(P(_)) == { i \in 1..Len(ingested) : P(ingested[i].swap) }

\* C1: between any two _analyze_swap calls, also after one that raised, every
\* pool_stats entry has total == verified + errors.
C1_TotalIsVerifiedPlusErrors ==
    \A k \in DOMAIN pool_stats :
        pool_stats[k].total = pool_stats[k].verified + pool_stats[k].errors

\* C1 witness: an entry that counts verified and failed swaps, seen right
\* after a call that raised.
C1_Witness ==
    /\ raised = "TypeError"
    /\ \E k \in DOMAIN pool_stats : pool_stats[k].verified > 0 /\ pool_stats[k].errors > 0

\* C2 as stated: once the loop over a file's swaps is over, every entry has
\* verified == perfect + within_1bps + within_10bps + within_100bps + over_100bps.
C2_VerifiedIsBucketSum ==
    pending = 0 =>
        \A k \in DOMAIN pool_stats : pool_stats[k].verified = BucketSum(pool_stats[k])

\* The verified swaps filed under pool key k that carried no difference_bps
\* (key absent or null).
VerifiedWithoutDifference(k) ==
    LET P(swap) == /\ KeyOf(swap) = k
                   /\ Verified(swap)
                   /\ Get(swap, "difference_bps", None) = None
    IN  Cardinality(Calls(P))

\* C2 as amended: at all times every entry has verified == the sum of the
\* five buckets + the number of verified swaps of that key without a
\* difference_bps; the buckets add up to verified exactly when there is no
\* such swap.
C2_VerifiedIsBucketSumPlusUnmeasured ==
    \A k \in DOMAIN pool_stats :
        pool_stats[k].verified = BucketSum(pool_stats[k]) + VerifiedWithoutDifference(k)

\* C2 witness: a finished file after which one entry holds both a bucketed
\* verified swap and a verified swap without difference_bps.
C2_Witness ==
    /\ pending = 0
    /\ \E k \in DOMAIN pool_stats :
        BucketSum(pool_stats[k]) > 0 /\ VerifiedWithoutDifference(k) > 0

\* The error text of a swap contains the marker (a null text contains nothing).
TextContains(swap, marker) ==
    LET error == Get(swap, "error", Val(""))
    IN  error # None /\ Contains(marker, error[1])

\* The category C3 gives a failed swap: first match in the stated order.
ClaimedCategory(swap) ==
    IF Get(swap, "amount_in", Val("0")) = Val("0") THEN "Zero-amount swap"
    ELSE IF TextContains(swap, "VM execution error") THEN "VM execution error"
    ELSE IF TextContains(swap, "negative output delta") THEN "Negative output delta"
    ELSE IF TextContains(swap, "Swap failed in solver") THEN "Solver calculation failed"
    ELSE "Other error"

\* C3 as stated: every failed swap is given its category by first match in
\* the order zero amount, VM execution error, negative output delta, solver
\* failure, other.
C3_CategoryByFirstMatch ==
    (last_op = "_analyze_swap" /\ ~Verified(last_swap)) =>
        last_category = ClaimedCategory(last_swap)

\* The bucket C4 gives a magnitude x.
ClaimedBucket(x) ==
    CASE x = 0 -> "perfect"
      [] 0 < x /\ x <= Bps(1) -> "within_1bps"
      [] Bps(1) < x /\ x <= Bps(10) -> "within_10bps"
      [] Bps(10) < x /\ x <= Bps(100) -> "within_100bps"
      [] x > Bps(100) -> "over_100bps"

BucketNames == { "perfect", "within_1bps", "within_10bps", "within_100bps", "over_100bps" }

\* C4: a call for a verified swap with a non-null difference_bps d adds one to
\* the bucket of |d| (0; (0,1]; (1,10]; (10,100]; above 100 bps) of the
\* swap's entry and leaves its four other buckets as they were.
C4_ExactlyOneBucket ==
    [][ ( /\ Len(ingested') = Len(ingested) + 1
          /\ Verified(last_swap')
          /\ Get(last_swap', "difference_bps", None) # None )
        => LET k == KeyOf(last_swap')
               before == Lookup(pool_stats, k, DefaultStats)
               d == last_swap'.difference_bps[1]
           IN  \A c \in BucketNames :
                   pool_stats'[k][c] =
                       before[c] + (IF c = ClaimedBucket(Abs(d)) THEN 1 ELSE 0)
      ]_vars

\* C4 witness: the swap just analysed has difference_bps = -100 bps, an edge
\* with a negative sign, and sits in within_100bps.
C4_Witness ==
    /\ last_op = "_analyze_swap"
    /\ Get(last_swap, "difference_bps", None) = Val(-Bps(100))
    /\ pool_stats[KeyOf(last_swap)].within_100bps > 0
    /\ pool_stats[KeyOf(last_swap)].over_100bps = 0

\* The 0-based index floor(n * pct / 100), defined by its bounds.
FloorIndex(n, pct) ==
    CHOOSE k \in 0..n : 100 * k <= n * pct /\ n * pct < 100 * (k + 1)

\* The element at 0-based position i of the ascending order of vals.
OrderStatistic(vals, i) ==
    CHOOSE v \in { vals[j] : j \in DOMAIN vals } :
        /\ Cardinality({ j \in DOMAIN vals : vals[j] < v }) <= i
        /\ i < Cardinality({ j \in DOMAIN vals : vals[j] <= v })

\* C5: _calculate_percentiles gives four zeros for the empty list; otherwise
\* p50, p95, p99 are the elements at index floor(n*q) of the ascending order
\* and max is the largest sample; [5] gives 5,5,5,5 and any order of 1..10
\* gives 6, 10, 10, 10.
C5_Percentiles ==
    percentiles.called =>
        LET r == percentiles.result
            n == Len(values)
        IN  /\ n = 0 => r = [ p50 |-> 0, p95 |-> 0, p99 |-> 0, max |-> 0 ]
            /\ n >= 1 =>
                 /\ r.p50 = OrderStatistic(values, FloorIndex(n, 50))
                 /\ r.p95 = OrderStatistic(values, FloorIndex(n, 95))
                 /\ r.p99 = OrderStatistic(values, FloorIndex(n, 99))
                 /\ r.max = OrderStatistic(values, n - 1)
            /\ values = << 5 >> => r = [ p50 |-> 5, p95 |-> 5, p99 |-> 5, max |-> 5 ]
            /\ Sorted(values) = OneToTen =>
                 r = [ p50 |-> 6, p95 |-> 10, p99 |-> 10, max |-> 10 ]

\* C5 witness: the percentiles of an unsorted list of 1..10 have been computed.
C5_Witness ==
    /\ percentiles.called
    /\ values = << 6, 1, 10, 3, 8, 5, 2, 9, 4, 7 >>
    /\ percentiles.result.p50 = 6

ErrorCategories ==
    { "Zero-amount swap", "VM execution error", "Negative output delta",
      "Solver calculation failed", "Other error" }

\* The calls, as ascending indices into `ingested`, that filed a failed swap
\* under pool key k with category c (a call that raised filed none).
FailuresOf(k, c) ==
    { i \in 1..Len(ingested) :
        LET swap == ingested[i].swap
            error == Get(swap, "error", Val(""))
            amount_in == Get(swap, "amount_in", Val("0"))
        IN  /\ KeyOf(swap) = k
            /\ ~Verified(swap)
            /\ ~CategorizeRaises(error, amount_in)
            /\ ErrorCategory(error, amount_in) = c }

\* The j-th smallest element of a set of indices.
Nth(S, j) == CHOOSE i \in S : Cardinality({ m \in S : m < i }) = j - 1

\* The example was taken from the given call.
ExampleOfCall(example, call) ==
    /\ example.filename = call.filename
    /\ example.pool_address = Get(call.swap, "pool_address", Val("N/A"))
    /\ example.amount_in = Get(call.swap, "amount_in", Val("0"))
    /\ example.pool_version = Get(call.swap, "pool_version", Val("Unknown"))

\* C6: for every (pool key, category) pair, error_types counts every failed
\* swap of the pair, and the examples kept are the first min(3, count) of
\* them in call order; no other example list exists.
C6_FirstThreeExamples ==
    /\ \A k \in DOMAIN pool_stats, c \in ErrorCategories :
        LET failures == FailuresOf(k, c)
            count == Cardinality(failures)
            kept == Lookup(error_examples, ExampleKey(k, c), << >>)
        IN  /\ Lookup(Lookup(error_types, k, EmptyDict), c, 0) = count
            /\ Len(kept) = (IF count < 3 THEN count ELSE 3)
            /\ \A j \in 1..Len(kept) : ExampleOfCall(kept[j], ingested[Nth(failures, j)])
    /\ DOMAIN error_examples \subseteq
           { ExampleKey(k, c) : k \in DOMAIN pool_stats, c \in ErrorCategories }

\* C6 witness: a pair with more than three failures, the fourth of which
\* comes from another pool than the third.
C6_Witness ==
    \E k \in DOMAIN pool_stats, c \in ErrorCategories :
        LET failures == FailuresOf(k, c)
        IN  /\ Cardinality(failures) > 3
            /\ Len(Lookup(error_examples, ExampleKey(k, c), << >>)) = 3
            /\ Get(ingested[Nth(failures, 4)].swap, "pool_address", None)
                   # Get(ingested[Nth(failures, 3)].swap, "pool_address", None)

\* C7 as stated: no _analyze_swap call raises, and a failed swap is always
\* given a category, whichever optional fields are missing or null.
C7_NeverRaises ==
    last_op = "_analyze_swap" =>
        /\ raised = ""
        /\ ~Verified(last_swap) => last_category \in ErrorCategories

\* C8 as stated: generate_markdown_report never divides by zero.
C8_ReportNeverDividesByZero ==
    last_op = "generate_markdown_report" => raised # "ZeroDivisionError"

\* C9 as stated: once a report has been produced, a further _analyze_file or
\* _analyze_swap call raises and leaves the analyzer's fields unchanged.
C9_NoIngestionAfterReport ==
    [][ (reported /\ last_op' \in { "_analyze_file", "_analyze_swap" })
        => (raised' # "" /\ aggregate' = aggregate) ]_vars

\* C10: one _analyze_swap call changes the pool_stats entry of the swap's
\* key (a new entry starts from zero counters) and no other entry; it
\* changes v2_stats exactly for a V2 swap and v3_stats exactly for a V3 swap;
\* it changes error_types and error_examples only for a failed swap.
C10_FrameOfAnalyzeSwap ==
    [][ Len(ingested') = Len(ingested) + 1
        => LET swap == last_swap'
               k == KeyOf(swap)
               pool_version == Get(swap, "pool_version", Val("Unknown"))
           IN  /\ DOMAIN pool_stats' = DOMAIN pool_stats \cup { k }
               /\ \A j \in DOMAIN pool_stats \ { k } : pool_stats'[j] = pool_stats[j]
               /\ pool_stats'[k].total = Lookup(pool_stats, k, DefaultStats).total + 1
               /\ k \notin DOMAIN pool_stats =>
                      /\ pool_stats'[k].total = 1
                      /\ pool_stats'[k].verified + pool_stats'[k].errors = 1
                      /\ BucketSum(pool_stats'[k]) <= 1
               /\ v2_stats' # v2_stats <=> pool_version = Val("V2")
               /\ v3_stats' # v3_stats <=> pool_version = Val("V3")
               /\ (error_types' # error_types \/ error_examples' # error_examples)
                      => ~Verified(swap)
      ]_vars

\* C10 witness: a swap with no pool_version has just been analysed while
\* entries of other keys and a V2 rollup already exist.
C10_Witness ==
    /\ last_op = "_analyze_swap"
    /\ "pool_version" \notin DOMAIN last_swap
    /\ Cardinality(DOMAIN pool_stats) >= 3
    /\ v2_stats.total > 0
    /\ v3_stats.total > 0
    /\ pool_stats[KeyOf(last_swap)].total = 1

\* C11 as stated: a generate_markdown_report call (with the sections and the
\* percentile computations it runs) leaves every field of the analyzer as
\* it found it: no key added to or removed from pool_stats, error_types,
\* error_examples, difference_distributions or available_liquidity, no
\* counter changed, no sample list reordered.
C11_ReportLeavesAggregateUnchanged ==
    [][ last_op' = "generate_markdown_report" => aggregate' = aggregate ]_vars

\* The pool type of a swap, as _analyze_swap reads it.
TypeOf(swap) == Fmt(Get(swap, "kind", Val("unknown")))

\* The pool types of the swaps analysed so far.
TypesSeen == { TypeOf(ingested[i].swap) : i \in 1..Len(ingested) }

\* The number of swaps of pool type t analysed so far, whatever their version.
SwapsOfType(t) == Cardinality({ i \in 1..Len(ingested) : TypeOf(ingested[i].swap) = t })

\* The pool_stats keys whose entry is of pool type t.
EntriesOfType(t) == { k \in DOMAIN pool_stats : pool_stats[k].pool_type = t }

\* The sum of one counter over the pool_stats entries of the given keys.
RECURSIVE SumField(_, _)
SumField(keys, field) ==
    IF keys = {} THEN 0
    ELSE LET k == CHOOSE x \in keys : TRUE
         IN  pool_stats[k][field] + SumField(keys \ { k }, field)

\* C12: the utilization table of a report has one row for every pool type
\* counted in available_liquidity or seen in a swap, and no other row; the
\* row's used value is the number of swaps of that pool type over all its
\* versions (the sum of their pool_stats totals), its available value is the
\* pool count of the liquidity files, and its ratio is used / available when
\* available > 0 and 0 otherwise.
C12_UtilizationTable ==
    report.written =>
        /\ DOMAIN report.utilization = DOMAIN available_liquidity \cup TypesSeen
        /\ \A t \in DOMAIN report.utilization :
             LET row == report.utilization[t]
             IN  /\ row.available = Lookup(available_liquidity, t, 0)
                 /\ row.used = SwapsOfType(t)
                 /\ row.used = SumField(EntriesOfType(t), "total")
                 /\ row.available > 0 => row.ratio = << row.used, row.available >>
                 /\ row.available = 0 => row.ratio = << 0, 1 >>

\* C12 witness: a report whose table has a row with available = 0 and
\* used = 5 (two versions together) and ratio 0, next to the rows of two pool
\* types that only the liquidity files of two auctions know.
C12_Witness ==
    /\ report.written
    /\ "weighted" \in DOMAIN report.utilization
    /\ report.utilization["weighted"] = [ available |-> 0, used |-> 5, ratio |-> << 0, 1 >> ]
    /\ Cardinality(EntriesOfType("weighted")) = 2
    /\ "stable" \in DOMAIN report.utilization
    /\ report.utilization["stable"].available = 4
    /\ report.utilization["stable"].used = 0
    /\ "gyro" \in DOMAIN report.utilization

\* The version of a swap, as _analyze_swap reads it.
VersionOf(swap) == Fmt(Get(swap, "pool_version", Val("Unknown")))

\* The calls so far with a swap of pool type t and version v.
CallsOf(t, v) ==
    { i \in 1..Len(ingested) :
        TypeOf(ingested[i].swap) = t /\ VersionOf(ingested[i].swap) = v }

\* Those of them whose swap was verified.
VerifiedCallsOf(t, v) == { i \in CallsOf(t, v) : Verified(ingested[i].swap) }

\* Those of them whose swap was verified with a difference_bps of 0.
PerfectCallsOf(t, v) ==
    { i \in VerifiedCallsOf(t, v) :
        Get(ingested[i].swap, "difference_bps", None) = Val(0) }

\* Those of them whose swap was verified with a non-null difference_bps.
SampledCallsOf(t, v) ==
    { i \in VerifiedCallsOf(t, v) :
        Get(ingested[i].swap, "difference_bps", None) # None }

\* The pool types seen under V2 and under V3.
TypesUnderBoth == { t \in TypesSeen : CallsOf(t, "V2") # {} /\ CallsOf(t, "V3") # {} }

\* C13: the comparison table of a report has a row for a pool type exactly
\* when swaps of that type were seen under V2 and under V3, that is, when
\* pool_stats holds an entry for it under each of the two versions; a type
\* seen under one of them only, or only under other versions, has no row.
C13_ComparisonRows ==
    report.written =>
        /\ DOMAIN report.comparison = TypesUnderBoth
        /\ \A t \in TypesSeen :
             t \in DOMAIN report.comparison
                 <=> /\ \E k \in EntriesOfType(t) : pool_stats[k].version = "V2"
                     /\ \E k \in EntriesOfType(t) : pool_stats[k].version = "V3"

\* C13 witness: a report that compares stable (seen under V2 and V3) and
\* leaves out weighted, which was seen under V2 and V1 only.
C13_Witness ==
    /\ report.written
    /\ DOMAIN report.comparison = { "stable" }
    /\ CallsOf("weighted", "V2") # {}
    /\ CallsOf("weighted", "V1") # {}

\* x and y are the same quotient.
SameFrac(x, y) == x[1] * y[2] = y[1] * x[2]

\* 100 * a2 / n2 - 100 * a3 / n3 for positive n2 and n3.
RateDelta(a2, n2, a3, n3) == << 100 * (a2 * n3 - a3 * n2), n2 * n3 >>

\* The 99th percentile of the sample list of a pool key, 0 without samples.
P99Of(pool_key) ==
    LET vals == Lookup(difference_distributions, pool_key, << >>)
    IN  IF vals = << >> THEN 0
        ELSE OrderStatistic(vals, FloorIndex(Len(vals), 99))

\* The success-rate and perfect-match-rate deltas of the row of pool type t
\* are the V2 rate minus the V3 rate of the swaps analysed so far.
RateDeltasV2MinusV3(t) ==
    LET row == report.comparison[t]
        n2 == Cardinality(CallsOf(t, "V2"))
        n3 == Cardinality(CallsOf(t, "V3"))
    IN  /\ SameFrac(row.success_rate_diff,
                    RateDelta(Cardinality(VerifiedCallsOf(t, "V2")), n2,
                              Cardinality(VerifiedCallsOf(t, "V3")), n3))
        /\ SameFrac(row.perfect_rate_diff,
                    RateDelta(Cardinality(PerfectCallsOf(t, "V2")), n2,
                              Cardinality(PerfectCallsOf(t, "V3")), n3))

\* C14 as stated: for every pool type seen under V2 and V3 the comparison
\* of a report carries a success-rate delta, a perfect-match-rate delta and
\* a p99-deviation delta, each the V2 value minus the V3 value, the p99
\* values being those of _calculate_percentiles on each version's samples.
C14_ThreeDeltasForEveryComparedType ==
    report.written =>
        \A t \in TypesUnderBoth :
            /\ t \in DOMAIN report.comparison
            /\ RateDeltasV2MinusV3(t)
            /\ report.comparison[t].has_p99
            /\ report.comparison[t].p99_diff = P99Of(t \o " V2") - P99Of(t \o " V3")

\* C14, amended: the two rate deltas are there for every pool type seen
\* under V2 and V3; the p99-deviation delta is there exactly when each of the
\* two versions has at least one verified swap with a non-null
\* difference_bps, and is then the V2 p99 minus the V3 p99.
C14_DeltasV2MinusV3 ==
    report.written =>
        \A t \in TypesUnderBoth :
            /\ t \in DOMAIN report.comparison
            /\ RateDeltasV2MinusV3(t)
            /\ report.comparison[t].has_p99
                   <=> (SampledCallsOf(t, "V2") # {} /\ SampledCallsOf(t, "V3") # {})
            /\ report.comparison[t].has_p99 =>
                   report.comparison[t].p99_diff = P99Of(t \o " V2") - P99Of(t \o " V3")

\* C14 witness: a report compares stable, whose V2 swaps all verified and
\* whose V3 swaps verified by half, with a p99 of 3 bps under V2 and 7 bps
\* under V3: a positive rate delta next to a negative p99 delta.
C14_Witness ==
    /\ report.written
    /\ "stable" \in DOMAIN report.comparison
    /\ SameFrac(report.comparison["stable"].success_rate_diff, << 50, 1 >>)
    /\ report.comparison["stable"].has_p99
    /\ report.comparison["stable"].p99_diff = Bps(3) - Bps(7)

\* The counters of a pool_stats entry.
CounterNames ==
    { "total", "verified", "perfect", "errors",
      "within_1bps", "within_10bps", "within_100bps", "over_100bps" }

\* The counters per pool key of an analyzer.
CountersOf(a) ==
    [ k \in DOMAIN a.pool_stats |-> [ c \in CounterNames |-> a.pool_stats[k][c] ] ]

\* The output of _calculate_percentiles per pool key of the sample lists.
PercentilesOf(samples) ==
    [ k \in DOMAIN samples |-> _calculate_percentiles(samples[k]) ]

\* Two analyzers merged: the counters of each pool key summed.
MergedCounters(a, b) ==
    [ k \in DOMAIN a.pool_stats \cup DOMAIN b.pool_stats |->
        [ c \in CounterNames |->
            Lookup(a.pool_stats, k, DefaultStats)[c] + Lookup(b.pool_stats, k, DefaultStats)[c] ] ]

\* Two analyzers merged: the sample lists of each pool key concatenated.
MergedSamples(a, b) ==
    [ k \in DOMAIN a.difference_distributions \cup DOMAIN b.difference_distributions |->
        Lookup(a.difference_distributions, k, << >>)
            \o Lookup(b.difference_distributions, k, << >>) ]

\* C15 as stated: for every batch and every split of it, the two parts
\* analysed by separate analyzers and merged give the pool_stats counters
\* and the percentiles per pool key of the whole batch analysed by one
\* analyzer, and so does the batch with its records in another order.
C15_ShardsMergeToWhole ==
    output.called =>
        /\ MergedCounters(output.first, output.second) = CountersOf(output.whole)
        /\ PercentilesOf(MergedSamples(output.first, output.second))
               = PercentilesOf(output.whole.difference_distributions)
        /\ CountersOf(output.reordered) = CountersOf(output.whole)
        /\ PercentilesOf(output.reordered.difference_distributions)
               = PercentilesOf(output.whole.difference_distributions)

\* The position of the first occurrence of key in the stream.
FirstSeen(stream, key) ==
    CHOOSE i \in 1..Len(stream) :
        stream[i] = key /\ \A j \in 1..(i - 1) : stream[j] # key

\* The number of occurrences of key in the stream.
Occurrences(stream, key) == Cardinality({ i \in 1..Len(stream) : stream[i] = key })

\* ranked lists every key of the stream once, with its number of
\* occurrences, by count descending and, for equal counts, by first
\* occurrence in the stream.
RankedByCountThenFirstSeen(ranked, stream) ==
    /\ { ranked[i].key : i \in 1..Len(ranked) } = { stream[i] : i \in 1..Len(stream) }
    /\ \A i, j \in 1..Len(ranked) : i # j => ranked[i].key # ranked[j].key
    /\ \A i \in 1..Len(ranked) : ranked[i].count = Occurrences(stream, ranked[i].key)
    /\ \A i, j \in 1..Len(ranked) :
         i < j =>
            \/ ranked[i].count > ranked[j].count
            \/ /\ ranked[i].count = ranked[j].count
               /\ FirstSeen(stream, ranked[i].key) < FirstSeen(stream, ranked[j].key)

\* top is the first n entries of some list ranked as above.
TopOfRanking(top, n, stream) ==
    LET keys == { stream[i] : i \in 1..Len(stream) }
        rest == keys \ { top[i].key : i \in 1..Len(top) }
    IN  /\ Len(top) = Min(n, Cardinality(keys))
        /\ \A i \in 1..Len(top) : top[i].key \in keys
        /\ \A i, j \in 1..Len(top) : i # j => top[i].key # top[j].key
        /\ \A i \in 1..Len(top) : top[i].count = Occurrences(stream, top[i].key)
        /\ \A i, j \in 1..Len(top) :
             i < j =>
                \/ top[i].count > top[j].count
                \/ /\ top[i].count = top[j].count
                   /\ FirstSeen(stream, top[i].key) < FirstSeen(stream, top[j].key)
        /\ \A k \in rest : \A i \in 1..Len(top) :
                \/ top[i].count > Occurrences(stream, k)
                \/ /\ top[i].count = Occurrences(stream, k)
                   /\ FirstSeen(stream, top[i].key) < FirstSeen(stream, k)

\* C16: every ranked list is ordered by count descending, keys of equal
\* count standing in the order of their first insertion into the counting
\* map, and a top-N list is the first N entries of that order.
C16_RankedByCountThenInsertion ==
    output.called =>
        /\ RankedByCountThenFirstSeen(output.pool_types, input)
        /\ RankedByCountThenFirstSeen(output.error_types, input)
        /\ TopOfRanking(output.top_pairs, TopPairs, input)
        /\ TopOfRanking(output.top_fillable, TopFillablePairs, input)

\* C16 witness: more than 30 keys were counted, the top list was cut to 30,
\* and among three keys of equal count the one inserted last stands last
\* although it was the first of them to reach that count.
C16_Witness ==
    /\ output.called
    /\ Len(output.counts) > 30
    /\ Len(output.top_pairs) = 30
    /\ Len(output.top_fillable) = 20
    /\ \E i \in 1..2 :
         /\ output.pool_types[i].key = "k5"
         /\ output.pool_types[i + 1].key = "k30"
         /\ output.pool_types[i + 2].key = "k31"
         /\ output.pool_types[i].count = output.pool_types[i + 2].count

\* C18: parse_uint256 returns v for v's decimal string, for "0x" followed
\* by v's hexadecimal digits and for the int v itself, for every
\* non-negative integer v, also beyond 64 bits.
C18_ParseIsLossless ==
    output.called =>
        /\ output.result.raised = ""
        /\ output.result.value = PyInt(input.v)

\* C18 witness: 2^256 - 1 has been parsed from its 78 decimal digits.
C18_Witness ==
    /\ output.called
    /\ input.encoding = "decimal"
    /\ output.value.v =
         "115792089237316195423570985008687907853269984665640564039457584007913129639935"
    /\ Len(input.v) = 18
    /\ output.result.value = PyInt(input.v)

\* The first of the two names under which the order has a non-null value
\* gives the value; the default stands in when neither does.
FirstNonNull(order, primary, alias, default) ==
    IF primary \in DOMAIN order /\ order[primary] # PyNone THEN order[primary]
    ELSE IF alias \in DOMAIN order /\ order[alias] # PyNone THEN order[alias]
    ELSE default

\* C17 as stated: each order field read under a primary name and an alias
\* resolves to the first of the two that is present and non-null and to the
\* default only when neither is; sellAmount null with sell_amount "7"
\* resolves to 7.
C17_FirstNonNullWins ==
    output.called =>
        LET r == output.fields
        IN  /\ r.sell_token = FirstNonNull(input, "sellToken", "sell_token", PyStr(""))
            /\ r.buy_token = FirstNonNull(input, "buyToken", "buy_token", PyStr(""))
            /\ r.sell_amount =
                 parse_uint256(FirstNonNull(input, "sellAmount", "sell_amount", PyStr("0")))
            /\ r.buy_amount =
                 parse_uint256(FirstNonNull(input, "buyAmount", "buy_amount", PyStr("0")))
            /\ r.valid_to = FirstNonNull(input, "validTo", "valid_to", PyInt(<< >>))
            /\ r.partially_fillable =
                 FirstNonNull(input, "partiallyFillable", "partially_fillable", PyBool(FALSE))
            /\ ("sellAmount" \in DOMAIN input /\ input["sellAmount"] = PyNone
                /\ "sell_amount" \in DOMAIN input /\ input["sell_amount"] = PyStr("7"))
                   => r.sell_amount.value = PyInt(<< 7 >>)

\* C19 as stated: a record that cannot be processed does not end the loop
\* over its file: whenever the analyzer stands between two files, every
\* swap of every file it has read has been handed to _analyze_swap, and no
\* exception has left _analyze_file.
C19_BatchNeverAborted ==
    pending = 0 =>
        /\ Len(ingested) = total_swaps
        /\ raised = "TypeError" => last_op # "_analyze_swap"

\* The pool_stats keys whose entry is of the given version.
EntriesOfVersion(version) == { k \in DOMAIN pool_stats : pool_stats[k].version = version }

\* The rollup is the sum of the pool_stats entries of the version.
RollupIsSumOfEntries(rollup, version) ==
    /\ rollup.total = SumField(EntriesOfVersion(version), "total")
    /\ rollup.verified = SumField(EntriesOfVersion(version), "verified")
    /\ rollup.perfect = SumField(EntriesOfVersion(version), "perfect")
    /\ rollup.errors = SumField(EntriesOfVersion(version), "errors")
    /\ rollup.total = rollup.verified + rollup.errors
    /\ rollup.perfect <= rollup.verified

\* C20: after any sequence of _analyze_swap calls, also one ended by a call
\* that raised, v2_stats is the sum of the pool_stats entries of version V2
\* and v3_stats the sum of those of version V3, counter by counter; so each
\* rollup has total == verified + errors and perfect <= verified.
C20_RollupIsSumOfEntries ==
    /\ RollupIsSumOfEntries(v2_stats, "V2")
    /\ RollupIsSumOfEntries(v3_stats, "V3")

\* C20 witness: two pool types have V2 entries, one with a perfect swap and
\* one with a verified swap that is not perfect, and the last call, a V3
\* swap, raised after it was counted as an error.
C20_Witness ==
    /\ Cardinality(EntriesOfVersion("V2")) = 2
    /\ v2_stats.perfect = 1
    /\ v2_stats.verified = 2
    /\ last_op = "_analyze_swap"
    /\ raised = "TypeError"
    /\ v3_stats.errors = 1
    /\ EntriesOfVersion("V1") = {}

\* The swap is verified and carries a non-null difference_bps.
Measured(swap) == Verified(swap) /\ Get(swap, "difference_bps", None) # None

\* The magnitudes |difference_bps| of the measured swaps of a pool key among
\* the first n calls, in call order.
RECURSIVE MagnitudesOf(_, _)
MagnitudesOf(key, n) ==
    IF n = 0 THEN << >>
    ELSE LET swap == ingested[n].swap
             d == Get(swap, "difference_bps", None)
         IN  IF KeyOf(swap) = key /\ Measured(swap)
             THEN Append(MagnitudesOf(key, n - 1), IF d[1] < 0 THEN 0 - d[1] ELSE d[1])
             ELSE MagnitudesOf(key, n - 1)

\* C21: after any sequence of _analyze_swap calls, the sample list of a pool
\* key holds one non-negative sample |difference_bps| for every verified
\* swap of the key with a non-null difference_bps, in call order, and
\* nothing else; a key without such a swap has no list; the length of a
\* list is the sum of the five buckets of its key; a failed swap adds no
\* sample even when it carries a difference_bps.
C21_SamplesAreMeasuredSwaps ==
    /\ DOMAIN difference_distributions =
           { KeyOf(ingested[i].swap) : i \in Calls(Measured) }
    /\ \A key \in DOMAIN difference_distributions :
         /\ difference_distributions[key] = MagnitudesOf(key, Len(ingested))
         /\ \A i \in 1..Len(difference_distributions[key]) :
                difference_distributions[key][i] >= 0
         /\ Len(difference_distributions[key]) = BucketSum(pool_stats[key])
    /\ \A key \in DOMAIN pool_stats \ DOMAIN difference_distributions :
         BucketSum(pool_stats[key]) = 0

\* C21 witness: a key has the one sample 3 bps of a verified swap with -3
\* bps, after a failed swap with a difference_bps and a verified swap
\* without one were analysed for the same key.
C21_Witness ==
    /\ Len(ingested) = 3
    /\ "stable V2" \in DOMAIN difference_distributions
    /\ difference_distributions["stable V2"] = << Bps(3) >>
    /\ pool_stats["stable V2"].errors = 1
    /\ pool_stats["stable V2"].verified = 2
    /\ \E i \in 1..3 : /\ ~Verified(ingested[i].swap)
                       /\ "difference_bps" \in DOMAIN ingested[i].swap

\* The counts of one error_types row, summed over its categories.
RECURSIVE SumOfRow(_, _)
SumOfRow(row, categories) ==
    IF categories = {} THEN 0
    ELSE LET c == CHOOSE x \in categories : TRUE
         IN  row[c] + SumOfRow(row, categories \ { c })

\* The failed swaps counted in the error_types row of a pool key.
CategorisedErrors(key) ==
    IF key \in DOMAIN error_types
    THEN SumOfRow(error_types[key], DOMAIN error_types[key])
    ELSE 0

\* C22 as stated: after any sequence of _analyze_swap calls every failed
\* swap has been counted in exactly one error category: the three global
\* category counters add up to total_errors, and the error_types row of
\* every pool key adds up to the errors of its pool_stats entry.
C22_EveryFailureInOneCategory ==
    /\ zero_amount_errors + vm_errors + other_errors = total_errors
    /\ \A key \in DOMAIN pool_stats : CategorisedErrors(key) = pool_stats[key].errors

\* The steps of main in the order of the module docstring.
PipelineOrder ==
    << "check_solutions", "cleanup_empty_auctions", "check_required_files",
       "generate_analysis", "run_verification", "generate_summary_report",
       "save_report" >>

Ran(step) == step \in Range(output.steps)

\* C23: the steps main has run are always the first steps of the fixed order
\* scan, cleanup, required-files check, analysis, verification, summary,
\* save; once main has returned, cleanup has run whenever the scan has; with
\* no file holding solutions main has returned 0 right after cleanup; with no
\* auction having every required file, with a failed analysis or with no
\* analysis file to summarise, main has returned 1 right after that step and
\* has saved nothing; a failed verification is always followed by the
\* summary; and a report is saved only after a successful analysis and a
\* summary.
C23_StepsInOrderAndReturns ==
    /\ output.steps = SubSeq(PipelineOrder, 1, Len(output.steps))
    /\ output.saved => /\ Ran("save_report")
                       /\ output.analysis_ok = Val(TRUE)
                       /\ output.stats # None
    /\ output.pc = "returned" =>
         /\ Ran("check_solutions") => Ran("cleanup_empty_auctions")
         /\ Ran("cleanup_empty_auctions") /\ output.solution_stats[1].with_solutions = 0
              => output.returned = Val(0) /\ Len(output.steps) = 2
         /\ Ran("check_required_files") /\ output.valid_auctions = << >>
              => output.returned = Val(1) /\ Len(output.steps) = 3 /\ ~output.saved
         /\ output.analysis_ok = Val(FALSE)
              => output.returned = Val(1) /\ Len(output.steps) = 4 /\ ~output.saved
         /\ output.verification_ok = Val(FALSE) => Ran("generate_summary_report")
         /\ Ran("generate_summary_report") /\ Glob(output.files, "_analysis.json") = {}
              => output.returned = Val(1) /\ Len(output.steps) = 6 /\ ~output.saved
         /\ Ran("save_report") => output.returned = Val(0) /\ output.saved

\* main has saved a report and returned 0 although the verification failed.
C23_Witness ==
    /\ output.pc = "returned"
    /\ output.verification_ok = Val(FALSE)
    /\ output.steps = PipelineOrder
    /\ output.returned = Val(0)
    /\ output.saved

\* The ids of the auctions with a solutions file <id>_solutions.json in the
\* directory main started from (enhanced solution files are no auctions).
ScannedAuctions ==
    { SubSeq(name, 1, Len(name) - Len("_solutions.json")) :
        name \in { n \in Glob(input.files, "_solutions.json") :
                     ~Contains("enhanced", n) } }

SolutionsDocument(id) == input.files[id \o "_solutions.json"]

\* The solutions file of the auction was read and holds no solution.
HoldsNoSolution(id) ==
    /\ ~LoadRaises(SolutionsDocument(id))
    /\ Get(SolutionsDocument(id).items, "solutions", << >>) = << >>

FilesOfAuction(id) == { id \o file_patterns[i] : i \in 1..Len(file_patterns) }

\* The files cleanup_empty_auctions has deleted.
Deleted == DOMAIN input.files \ DOMAIN output.files

\* C24: right after cleanup_empty_auctions every deleted file is named
\* <auction_id><suffix> for an auction whose solutions file was read and
\* holds no solution, no file of an auction whose solutions file holds a
\* solution or could not be read is deleted, and auction_ids and
\* empty_auction_ids have no id in common.
C24_OnlyEmptyAuctionsDeleted ==
    output.steps = SubSeq(PipelineOrder, 1, 2) =>
        /\ \A name \in Deleted :
             \E id \in ScannedAuctions : HoldsNoSolution(id) /\ name \in FilesOfAuction(id)
        /\ \A id \in ScannedAuctions :
             ~HoldsNoSolution(id) => FilesOfAuction(id) \cap Deleted = {}
        /\ Range(output.solution_stats[1].auction_ids)
           \cap Range(output.solution_stats[1].empty_auction_ids) = {}

\* C30: the counts either scan reports add up to the number of files
\* matching *_solutions.json, enhanced solution files included.
C30_ScanCountsAddUp ==
    output.called /\ output.stats # None =>
        LET stats == output.stats[1]
        IN  IF last_op = "run_full_analysis.check_solutions"
            THEN stats.with_solutions + stats.empty + stats.errors = stats.total
            ELSE stats.with_solutions + stats.empty + stats.error = stats.total

\* The trades of our solution whose order the auction lists.
AnalysedTrades ==
    SelectSeq(input.solutions["solutions"][1]["trades"],
              LAMBDA t : \E i \in 1..Len(input.auction["orders"]) :
                             input.auction["orders"][i]["uid"] = t["order"])

OrderOf(trade) ==
    input.auction["orders"][CHOOSE i \in 1..Len(input.auction["orders"]) :
                                input.auction["orders"][i]["uid"] = trade["order"]]

OutputFor(trade) ==
    OurOutput(input.solutions["solutions"][1]["interactions"], OrderOf(trade)["buyToken"])

\* The buy amounts at which winning solutions filled the order of a trade.
WinnerAmounts(trade) ==
    UNION { { int(w["orders"][i]["buyAmount"]) :
                i \in { j \in 1..Len(w["orders"]) : w["orders"][j]["id"] = trade["order"] } } :
            w \in { s \in Range(input.competition["solutions"]) : s["isWinner"] } }

\* ceil(buy * executed / sell) - 1 < effective minimum <= buy * executed / sell
IsFloorOfProration(min, order, trade) ==
    /\ min * int(order["sellAmount"]) <= int(order["buyAmount"]) * int(trade["executedAmount"])
    /\ (min + 1) * int(order["sellAmount"]) > int(order["buyAmount"]) * int(trade["executedAmount"])

\* C25: the result is valid iff every analysed trade pays at least its
\* effective minimum, it beats the winner iff some analysed trade pays at
\* least the buy amount at which a winner filled its order, and it is
\* competitive iff it is both.
C25_Verdicts ==
    output.called =>
        /\ output.result.valid <=>
             \A i \in 1..Len(AnalysedTrades) :
                 OutputFor(AnalysedTrades[i])
                 >= output.result.trades[i].effective_buy_min
        /\ output.result.beat_winner <=>
             \E i \in 1..Len(AnalysedTrades) :
                 \E amount \in WinnerAmounts(AnalysedTrades[i]) :
                     OutputFor(AnalysedTrades[i]) >= amount
        /\ output.result.competitive <=> (output.result.valid /\ output.result.beat_winner)
        /\ output.result.competitive => output.result.valid

PartiallyFillable(order) ==
    "partiallyFillable" \in DOMAIN order /\ order["partiallyFillable"]

\* C26: the effective minimum of every analysed trade is the floor of
\* buyAmount * executedAmount / sellAmount for a partially fillable order
\* with a positive sell amount and buyAmount otherwise; for a partially
\* fillable order executed for at most its sell amount it is at most
\* buyAmount, and buyAmount itself when the order is executed in full.
C26_EffectiveMinimum ==
    output.called =>
        \A i \in 1..Len(AnalysedTrades) :
            LET trade == AnalysedTrades[i]
                order == OrderOf(trade)
                min == output.result.trades[i].effective_buy_min
            IN  /\ IF PartiallyFillable(order) /\ int(order["sellAmount"]) > 0
                   THEN IsFloorOfProration(min, order, trade)
                   ELSE min = int(order["buyAmount"])
                /\ PartiallyFillable(order)
                   /\ int(trade["executedAmount"]) <= int(order["sellAmount"])
                     => /\ min <= int(order["buyAmount"])
                        /\ int(trade["executedAmount"]) = int(order["sellAmount"])
                             => min = int(order["buyAmount"])

\* A partially fillable order selling 3 for at least 10 is executed for 2 and
\* its minimum is the floor 6 of 20/3, and it is executed in full with the
\* minimum 10.
C26_Witness ==
    /\ output.called
    /\ Len(AnalysedTrades) = 2
    /\ PartiallyFillable(OrderOf(AnalysedTrades[1]))
    /\ int(OrderOf(AnalysedTrades[1])["sellAmount"]) = 3
    /\ int(AnalysedTrades[1]["executedAmount"]) = 2
    /\ output.result.trades[1].effective_buy_min = 6
    /\ int(AnalysedTrades[2]["executedAmount"]) = 3
    /\ output.result.trades[2].effective_buy_min = 10

\* The reference price of a token of an auction file as a number, -1 when
\* the token is unknown or has no price.
PriceOf(tokens, token) ==
    IF token.type = "str" /\ token.v \in DOMAIN tokens
       /\ "referencePrice" \in DOMAIN tokens[token.v]
       /\ tokens[token.v]["referencePrice"].type = "str"
    THEN int(tokens[token.v]["referencePrice"].v)
    ELSE -1

\* What the claim says of one order: the reason, and under "ok" the verdict
\* and the sign of the deviation.
FillabilityAsClaimed(order, tokens, checked) ==
    LET sell == int(order["sellAmount"].v)
        buy == int(order["buyAmount"].v)
        sell_ref == PriceOf(tokens, order["sellToken"])
        buy_ref == PriceOf(tokens, order["buyToken"])
    IN  IF sell = 0 \/ buy = 0 THEN checked.reason = "zero_amount"
        ELSE IF sell_ref < 0 \/ buy_ref < 0 THEN checked.reason = "no_ref_price"
        ELSE IF sell_ref = 0 \/ buy_ref = 0 THEN checked.reason = "zero_ref_price"
        ELSE /\ checked.reason = "ok"
             /\ checked.is_fillable <=> 100 * buy * buy_ref <= 101 * sell * sell_ref
             /\ checked.deviation[1][1] * checked.deviation[1][2] > 0
                  <=> buy * buy_ref < sell * sell_ref

\* Every order of the auction files that check_fillability takes without an
\* exception is judged as claimed.
ReasonsAndVerdictAsClaimed ==
    \A f \in 1..Len(input) :
        \A i \in 1..Len(input[f].orders) :
            LET checked == check_fillability(input[f].orders[i], input[f].tokens)
            IN  checked.raised = ""
                  => FillabilityAsClaimed(input[f].orders[i], input[f].tokens, checked)

MaxLength == 200

Percents == { 50, 95, 99 }

Smallest(vals) == CHOOSE x \in Range(vals) : \A y \in Range(vals) : x <= y

Largest(vals) == CHOOSE x \in Range(vals) : \A y \in Range(vals) : y <= x

\* C28: for every list length n >= 1 the three indices int(n * 0.50),
\* int(n * 0.95), int(n * 0.99) are within 0..n-1, and for every non-empty
\* list the results are ordered min <= p50 <= p95 <= p99 <= max, max being
\* the largest sample.
C28_IndicesInRangeAndOrdered ==
    /\ \A n \in ((1..MaxLength) \cup { Len(values) }) \ { 0 } :
         \A pct \in Percents : PercentileIndex(n, pct) \in 0..(n - 1)
    /\ percentiles.called /\ values # << >> =>
         /\ Smallest(values) <= percentiles.result.p50
         /\ percentiles.result.p50 <= percentiles.result.p95
         /\ percentiles.result.p95 <= percentiles.result.p99
         /\ percentiles.result.p99 <= percentiles.result.max
         /\ percentiles.result.max = Largest(values)

\* Ten unsorted samples: the median is the sixth and the two upper
\* percentiles are the largest sample.
C28_Witness ==
    /\ percentiles.called
    /\ values = << 6, 1, 10, 3, 8, 5, 2, 9, 4, 7 >>
    /\ percentiles.result.p50 = 6
    /\ percentiles.result.p95 = 10
    /\ percentiles.result.p99 = 10

\* The call _analyze_swap(swap, ...) raises.
Raising(swap) ==
    /\ ~Verified(swap)
    /\ CategorizeRaises(Get(swap, "error", Val("")), Get(swap, "amount_in", Val("0")))

NoCallRaised == \A i \in 1..Len(ingested) : ~Raising(ingested[i].swap)

\* C29: between files, when no call has raised, total_swaps ==
\* total_verified + total_errors == the sum of the pool_stats totals,
\* total_verified == the sum of the entries' verified, and total_errors ==
\* the sum of the entries' errors.
C29_GlobalCountersAgree ==
    pending = 0 /\ NoCallRaised =>
        /\ total_swaps = total_verified + total_errors
        /\ total_swaps = SumField(DOMAIN pool_stats, "total")
        /\ total_verified = SumField(DOMAIN pool_stats, "verified")
        /\ total_errors = SumField(DOMAIN pool_stats, "errors")

\* Two files with three swaps over two pool keys, verified and failed, and
\* no call raised.
C29_Witness ==
    /\ pending = 0
    /\ NoCallRaised
    /\ files_done = 2
    /\ total_swaps = 3
    /\ total_verified > 0
    /\ total_errors > 0
    /\ Cardinality(DOMAIN pool_stats) >= 2

====
